---- MODULE Spec2Model ----
(***************************************************************************)
(* Universal Draft Saver (masoningithub/Clipper).                          *)
(*                                                                         *)
(* The content script (src/unnamed/part_001) classifies edited elements,   *)
(* debounces saves and sends SAVE_DRAFT messages; the service worker       *)
(* (src/background.js) upserts them into chrome.storage.local and sweeps   *)
(* expired drafts.  src/content-scripts/auto-save.js is an older variant   *)
(* of the content script that writes to storage itself; part_004 and       *)
(* part_003 are the service worker and the restore script of that variant. *)
(*                                                                         *)
(* Time is counted in seconds.  Strings that the code trims, measures or   *)
(* concatenates are sequences of tokens: one token per character, one per  *)
(* markup tag.                                                             *)
(***************************************************************************)
EXTENDS Integers, Sequences, FiniteSets, TLC

VARIABLES
  now,              \* Date.now(), in seconds
  connected,        \* elements currently in the document
  detached,         \* elements removed from the document (still referenced)
  value,            \* el.value / el.innerHTML, per element
  checked,          \* el.checked, per element
  selectedOptions,  \* indices of el.selectedOptions, per element
  elementDataMap,   \* WeakMap: textarea -> cached height
  attached,         \* per element: listener sets added by attachEventListeners
  timers,           \* pending setTimeout callbacks [el, deadline]
  timeoutId,        \* the closure variable of debounce()
  tasks,            \* background async tasks, in the order they were started
  store,            \* chrome.storage.local 'drafts'
  phase,            \* the page: "live", "hidden" or "unloading"
  burst,            \* history: the debouncedSave calls since the last firing
  probe,            \* an element handed to shouldSaveElement, and the verdict
  allDrafts,        \* the side panel's loaded list: entries [key, draft]
  restore,          \* the latest run of a restore function and what it did
  style,            \* el.style.boxShadow and el.style.transition, per element
  highlights        \* pending 2000 ms timers of the highlight, oldest first

vars == <<now, connected, detached, value, checked, selectedOptions,
          elementDataMap, attached, timers, timeoutId, tasks, store, phase,
          burst, probe, allDrafts, restore, style, highlights>>

----------------------------------------------------------------------------
(* Bounds of the model *)

MaxTime == 4
MaxTasks == 2
MaxAttach == 1
MaxLegacyTime == 6

----------------------------------------------------------------------------
(* Program constants *)

\* debounce(saveDraft, 3000): 3000 ms, in seconds
DebounceDelay == 3000 \div 1000

\* EXPIRY_MILLISECONDS = 30 * 24 * 60 * 60 * 1000, in seconds
EXPIRY_MILLISECONDS == 30 * 24 * 60 * 60

\* minimum trimmed length of a text draft
MinTextLength == 3

StartTime == EXPIRY_MILLISECONDS + 100

hostname == "example.com"
href == "https://example.com/post"

----------------------------------------------------------------------------
(* Strings as token sequences *)

Tags == {"<b>", "</b>", "<br>"}
Whitespace == {" "}

\* character references; a "<" token is a less-than sign that opens no tag
Entities == {"&lt;", "&gt;", "&amp;"}

\* number of UTF-16 units of one token
TokenLength(t) ==
  CASE t = "<b>" -> 3
    [] t = "</b>" -> 4
    [] t = "<br>" -> 4
    [] t = "&lt;" -> 4
    [] t = "&gt;" -> 4
    [] t = "&amp;" -> 5
    [] OTHER -> 1

RECURSIVE StrLength(_)
StrLength(s) == IF s = <<>> THEN 0 ELSE TokenLength(Head(s)) + StrLength(Tail(s))

RECURSIVE TrimStart(_)
TrimStart(s) ==
  IF s # <<>> /\ Head(s) \in Whitespace THEN TrimStart(Tail(s)) ELSE s

RECURSIVE TrimEnd(_)
TrimEnd(s) ==
  IF s # <<>> /\ s[Len(s)] \in Whitespace
  THEN TrimEnd(SubSeq(s, 1, Len(s) - 1)) ELSE s

\* String.prototype.trim
Trim(s) == TrimEnd(TrimStart(s))

IsTag(t) == t \in Tags
IsText(t) == ~IsTag(t)

\* the character a token of markup stands for in the text of the document
DecodeEntity(t) ==
  CASE t = "&lt;" -> "<"
    [] t = "&gt;" -> ">"
    [] t = "&amp;" -> "&"
    [] OTHER -> t

\* the markup that renders the token t of a text as that text
EscapeToken(t) ==
  CASE t = "<" -> <<"&lt;">>
    [] t = ">" -> <<"&gt;">>
    [] t = "&" -> <<"&amp;">>
    [] t = "<b>" -> <<"&lt;", "b", "&gt;">>
    [] t = "</b>" -> <<"&lt;", "/", "b", "&gt;">>
    [] t = "<br>" -> <<"&lt;", "b", "r", "&gt;">>
    [] t = "&lt;" -> <<"&amp;", "l", "t", ";">>
    [] t = "&gt;" -> <<"&amp;", "g", "t", ";">>
    [] t = "&amp;" -> <<"&amp;", "a", "m", "p", ";">>
    [] OTHER -> <<t>>

\* el.textContent of an element whose innerHTML is s
TextContent(s) ==
  LET text == SelectSeq(s, IsText)
  IN [i \in 1..Len(text) |-> DecodeEntity(text[i])]

RECURSIVE ParseFrom(_, _)
\* the serialization of what the HTML parser builds from s inside depth open
\* <b> elements: an end tag without start tag is dropped, an element left
\* open is closed at the end, a bare special character is escaped
ParseFrom(s, depth) ==
  IF s = <<>> THEN [i \in 1..depth |-> "</b>"]
  ELSE LET h == Head(s) IN
       IF h = "<b>" THEN <<h>> \o ParseFrom(Tail(s), depth + 1)
       ELSE IF h = "</b>"
       THEN (IF depth > 0 THEN <<h>> \o ParseFrom(Tail(s), depth - 1)
             ELSE ParseFrom(Tail(s), depth))
       ELSE IF h \in {"<", ">", "&"}
       THEN EscapeToken(h) \o ParseFrom(Tail(s), depth)
       ELSE <<h>> \o ParseFrom(Tail(s), depth)

\* el.innerHTML after el.innerHTML = s
SetInnerHTML(s) == ParseFrom(s, 0)

RECURSIVE SetTextContent(_)
\* el.innerHTML after el.textContent = s
SetTextContent(s) ==
  IF s = <<>> THEN <<>> ELSE EscapeToken(Head(s)) \o SetTextContent(Tail(s))

----------------------------------------------------------------------------
(* The page: elements and their static attributes *)

Elems == {"hid", "tb", "ta", "ed", "cb", "rd", "sel", "rd2", "pw"}

\* document order, as querySelectorAll returns it
ElemOrder == <<"hid", "tb", "ta", "ed", "cb", "rd", "sel", "rd2", "pw">>

TextElems == {"hid", "tb", "ta", "ed", "pw"}

NoAttrs ==
  [tagName |-> "DIV", type |-> "", typeAttr |-> "", autocomplete |-> "",
   name |-> "", id |-> "", placeholder |-> "", role |-> "", ariaLabel |-> "",
   offsetParentNull |-> FALSE, displayNone |-> FALSE,
   isContentEditable |-> FALSE, contenteditableAttr |-> "",
   styleHeight |-> 0, offsetHeight |-> 0, scrollHeight |-> 0,
   multiple |-> FALSE,
   valueAttr |-> ""]

ElemDef ==
  [e \in Elems |->
     CASE e = "hid" ->
            [NoAttrs EXCEPT !.tagName = "TEXTAREA", !.type = "textarea",
                            !.offsetParentNull = TRUE, !.displayNone = TRUE,
                            !.styleHeight = 200]
       [] e = "tb" ->
            [NoAttrs EXCEPT !.tagName = "TEXTAREA", !.type = "textarea",
                            !.name = "comment", !.styleHeight = 60,
                            !.offsetHeight = 60, !.scrollHeight = 60]
       [] e = "ta" ->
            [NoAttrs EXCEPT !.tagName = "TEXTAREA", !.type = "textarea",
                            !.styleHeight = 200, !.offsetHeight = 200,
                            !.scrollHeight = 200]
       [] e = "ed" ->
            [NoAttrs EXCEPT !.id = "editor", !.isContentEditable = TRUE,
                            !.contenteditableAttr = "true", !.offsetHeight = 300,
                            !.scrollHeight = 300]
       [] e = "cb" ->
            [NoAttrs EXCEPT !.tagName = "INPUT", !.type = "checkbox",
                            !.typeAttr = "checkbox", !.name = "agree",
                            !.valueAttr = "on", !.offsetHeight = 13]
       [] e = "rd" ->
            [NoAttrs EXCEPT !.tagName = "INPUT", !.type = "radio",
                            !.typeAttr = "radio", !.name = "plan",
                            !.valueAttr = "pro", !.offsetHeight = 13]
       [] e = "sel" ->
            [NoAttrs EXCEPT !.tagName = "SELECT", !.type = "select-multiple",
                            !.multiple = TRUE, !.offsetHeight = 40]
       [] e = "rd2" ->
            [NoAttrs EXCEPT !.tagName = "INPUT", !.type = "radio",
                            !.typeAttr = "radio", !.name = "plan",
                            !.valueAttr = "free", !.offsetHeight = 13]
       [] e = "pw" ->
            [NoAttrs EXCEPT !.tagName = "TEXTAREA", !.type = "textarea",
                            !.name = "userPwd", !.styleHeight = 200,
                            !.offsetHeight = 200, !.scrollHeight = 200]]

\* the option list of the select element: index -> JSON of the option
OptionJSON == <<"{value:a,text:A,index:0}", "{value:b,text:B,index:1}">>

\* the pages a run can start on
Pages == { {"ta", "ed"}, {"cb"}, {"sel"}, {"rd"} }

\* a form with a radio group of two buttons and a rich editor
FormPage == {"rd", "rd2", "ed"}

\* what the user can put into each element
TextValues ==
  { <<>>, <<" ", "h", "i">>, <<"a", "b", "c">>, <<"a", "b", "c", "d">> }

RichValues ==
  { <<>>, <<"<b>", "h", "i", "</b>">>, <<"<b>", "a", "b", "c", "</b>">> }

ValuesOf(e) ==
  CASE e = "ta" -> TextValues
    [] e = "pw" -> TextValues
    [] e = "tb" -> TextValues
    [] e = "hid" -> TextValues
    [] e = "ed" -> RichValues
    [] OTHER -> {<<>>}

----------------------------------------------------------------------------
(* shouldSaveElement *)

\* /password|passwd|pwd/i
MatchesPassword(s) == s \in {"password", "userPwd", "PASSWD"}
\* /search|搜索|query/i
MatchesSearchQuery(s) == s \in {"search", "Search here", "query"}
\* /search|搜索/i
MatchesSearch(s) == s \in {"search", "Search here"}
\* /body|content|message|description|comment|text|post|reply|note|memo|.../i
MatchesContent(s) == s \in {"comment", "message", "body", "Your reply"}
\* /username|user|email|login|account|phone|mobile|.../i
MatchesSensitive(s) == s \in {"username", "userPwd", "email", "phone"}

excludedInputTypes == {"submit", "button", "reset", "image", "file", "hidden"}
textInputTypes ==
  {"text", "email", "url", "tel", "number", "date", "datetime-local",
   "month", "week", "time", "color"}

isPasswordField(d) ==
  \/ d.type = "password"
  \/ d.typeAttr = "password"
  \/ d.autocomplete = "current-password"
  \/ d.autocomplete = "new-password"
  \/ MatchesPassword(d.name)
  \/ MatchesPassword(d.id)

isSearchBox(d) ==
  \/ d.typeAttr = "search"
  \/ d.role = "searchbox"
  \/ MatchesSearchQuery(d.placeholder)
  \/ MatchesSearch(d.name)
  \/ MatchesSearch(d.ariaLabel)

\* the exclusion rules 1-4
Excluded(d) ==
  \/ d.tagName = ""
  \/ isPasswordField(d)
  \/ isSearchBox(d)
  \/ d.offsetParentNull \/ d.displayNone
  \/ (d.tagName = "INPUT" /\ d.type \in excludedInputTypes)

IsRichEditor(d) == d.isContentEditable /\ d.contenteditableAttr = "true"

\* the classification gets as far as the textarea rule
ReachesTextareaRule(d) ==
  ~Excluded(d) /\ ~IsRichEditor(d) /\ d.tagName = "TEXTAREA"

\* parseInt(computedStyle.height, 10) || el.offsetHeight
MeasuredHeight(d) == IF d.styleHeight # 0 THEN d.styleHeight ELSE d.offsetHeight

\* the height the textarea rule uses: the cached one when there is one
CachedHeight(e, cache) ==
  IF e \in DOMAIN cache THEN cache[e] ELSE MeasuredHeight(ElemDef[e])

\* elementDataMap after shouldSaveElement(e)
CacheAfter(e, cache) ==
  IF ReachesTextareaRule(ElemDef[e]) /\ e \notin DOMAIN cache
  THEN [x \in DOMAIN cache \cup {e} |->
          IF x = e THEN MeasuredHeight(ElemDef[e]) ELSE cache[x]]
  ELSE cache

\* a classifier whose textarea rule asks for a content name as well
shouldSaveElementAt_NameRequired(d, height) ==
  IF Excluded(d) THEN FALSE
  ELSE IF IsRichEditor(d) THEN TRUE
  ELSE IF d.tagName = "TEXTAREA"
          /\ height > 150
          /\ (MatchesContent(d.name) \/ MatchesContent(d.placeholder))
       THEN TRUE
  ELSE IF d.tagName = "INPUT" /\ d.type \in textInputTypes
       THEN ~(MatchesSensitive(d.name) \/ MatchesSensitive(d.id))
  ELSE IF d.tagName = "SELECT" THEN TRUE
  ELSE IF d.tagName = "INPUT" /\ d.type \in {"checkbox", "radio"}
       THEN d.name # ""
  ELSE FALSE

\* a classifier that takes the id of a checkbox or radio for a name
shouldSaveElementAt_IdCounts(d, height) ==
  IF Excluded(d) THEN FALSE
  ELSE IF IsRichEditor(d) THEN TRUE
  ELSE IF d.tagName = "TEXTAREA"
          /\ (\/ height > 150
              \/ MatchesContent(d.name) \/ MatchesContent(d.placeholder))
       THEN TRUE
  ELSE IF d.tagName = "INPUT" /\ d.type \in textInputTypes
       THEN ~(MatchesSensitive(d.name) \/ MatchesSensitive(d.id))
  ELSE IF d.tagName = "SELECT" THEN TRUE
  ELSE IF d.tagName = "INPUT" /\ d.type \in {"checkbox", "radio"}
       THEN d.name # "" \/ d.id # ""
  ELSE FALSE

\* the body of shouldSaveElement for an element with attributes d whose
\* cachedData.height is height
shouldSaveElementAt(d, height) ==
  IF Excluded(d) THEN FALSE
  ELSE IF IsRichEditor(d) THEN TRUE
  ELSE IF d.tagName = "TEXTAREA"
          /\ (\/ height > 150
              \/ MatchesContent(d.name) \/ MatchesContent(d.placeholder))
       THEN TRUE
  ELSE IF d.tagName = "INPUT" /\ d.type \in textInputTypes
       THEN ~(MatchesSensitive(d.name) \/ MatchesSensitive(d.id))
  ELSE IF d.tagName = "SELECT" THEN TRUE
  ELSE IF d.tagName = "INPUT" /\ d.type \in {"checkbox", "radio"}
       THEN d.name # ""
  ELSE FALSE

shouldSaveElement(e, cache) ==
  shouldSaveElementAt(ElemDef[e], CachedHeight(e, cache))

----------------------------------------------------------------------------
(* Key-value maps (JavaScript objects used as dictionaries) *)

EmptyMap == [k \in {} |-> 0]

Put(m, k, v) == [x \in DOMAIN m \cup {k} |-> IF x = k THEN v ELSE m[x]]

Without(m, ks) == [x \in DOMAIN m \ ks |-> m[x]]

----------------------------------------------------------------------------
(* generateDraftKey, extractElementValue, saveDraft *)

TagLower(d) ==
  CASE d.tagName = "TEXTAREA" -> "textarea"
    [] d.tagName = "INPUT" -> "input"
    [] d.tagName = "SELECT" -> "select"
    [] OTHER -> "div"

RECURSIVE SameTagBefore(_, _, _)
\* how many connected elements with tag t precede position i of ElemOrder
SameTagBefore(t, i, conn) ==
  IF i = 0 THEN 0
  ELSE SameTagBefore(t, i - 1, conn)
       + (IF ElemOrder[i] \in conn /\ TagLower(ElemDef[ElemOrder[i]]) = t
          THEN 1 ELSE 0)

PositionOf(e) == CHOOSE i \in 1..Len(ElemOrder) : ElemOrder[i] = e

\* Array.from(document.querySelectorAll(tagName)).indexOf(el)
IndexAmongTag(e, conn) ==
  IF e \in conn
  THEN SameTagBefore(TagLower(ElemDef[e]), PositionOf(e) - 1, conn)
  ELSE -1

\* `${tagName}_pos_${index}`
PosIdentifier(tag, i) ==
  CASE tag = "textarea" ->
         (CASE i = 0 -> "textarea_pos_0" [] i = 1 -> "textarea_pos_1"
            [] OTHER -> "textarea_pos_-1")
    [] tag = "input" ->
         (CASE i = 0 -> "input_pos_0" [] i = 1 -> "input_pos_1"
            [] OTHER -> "input_pos_-1")
    [] tag = "select" ->
         (CASE i = 0 -> "select_pos_0" [] i = 1 -> "select_pos_1"
            [] OTHER -> "select_pos_-1")
    [] OTHER ->
         (CASE i = 0 -> "div_pos_0" [] i = 1 -> "div_pos_1"
            [] OTHER -> "div_pos_-1")

\* the key `${hostname}_${identifier}` as the pair <<hostname, identifier>>
generateDraftKey(e, conn) ==
  LET d == ElemDef[e]
      identifier ==
        IF d.id # "" THEN d.id
        ELSE IF d.name # "" THEN d.name
        ELSE PosIdentifier(TagLower(d), IndexAmongTag(e, conn))
  IN <<hostname, identifier>>

\* `input-${inputType}`
InputElementType(t) ==
  CASE t = "checkbox" -> "input-checkbox"
    [] t = "radio" -> "input-radio"
    [] t = "email" -> "input-email"
    [] t = "url" -> "input-url"
    [] t = "number" -> "input-number"
    [] OTHER -> "input-text"

RECURSIVE OptionsJSON(_, _)
\* the JSON of the selected options with index >= i, in option order
OptionsJSON(sel, i) ==
  IF i > Len(OptionJSON) THEN <<>>
  ELSE (IF (i - 1) \in sel THEN <<OptionJSON[i]>> ELSE <<>>)
       \o OptionsJSON(sel, i + 1)

\* JSON.stringify(selectedOptions)
StringifyOptions(sel) == <<"[">> \o OptionsJSON(sel, 1) \o <<"]">>

extractElementValue(e, val, chk, sel) ==
  LET d == ElemDef[e] IN
  IF d.isContentEditable
  THEN [content |-> val[e], elementType |-> "contenteditable"]
  ELSE IF d.tagName = "TEXTAREA"
  THEN [content |-> val[e], elementType |-> "textarea"]
  ELSE IF d.tagName = "INPUT"
  THEN [content |->
          IF d.type = "checkbox"
          THEN (IF chk[e] THEN <<"checked">> ELSE <<"unchecked">>)
          ELSE IF d.type = "radio"
          THEN (IF chk[e] THEN <<"checked:", d.valueAttr>>
                ELSE <<"unchecked:", d.valueAttr>>)
          ELSE val[e],
        elementType |-> InputElementType(d.type)]
  ELSE IF d.tagName = "SELECT"
  THEN [content |-> StringifyOptions(sel[e]), elementType |-> "select"]
  ELSE [content |-> <<>>, elementType |-> TagLower(d)]

\* measuring the raw content: no trim, markup counted
MeasuredText_Raw(e, val, chk, sel) ==
  extractElementValue(e, val, chk, sel).content

\* the text saveDraft measures: el.textContent for rich text, else content
MeasuredText(e, val, chk, sel) ==
  LET x == extractElementValue(e, val, chk, sel) IN
  IF x.elementType = "contenteditable"
  THEN Trim(TextContent(val[e]))
  ELSE Trim(x.content)

\* a content check that takes an unchecked box for empty content
PassesContentCheck_UncheckedEmpty(e, val, chk, sel) ==
  LET x == extractElementValue(e, val, chk, sel) IN
  IF x.elementType \in {"input-checkbox", "input-radio"} THEN chk[e]
  ELSE IF x.elementType = "select"
  THEN ~(x.content = <<>> \/ x.content = <<"[", "]">>)
  ELSE LET trimmedContent == MeasuredText(e, val, chk, sel) IN
       ~(trimmedContent = <<>> \/ StrLength(trimmedContent) < MinTextLength)

\* the empty-content check of saveDraft: TRUE when the draft is to be sent
PassesContentCheck(e, val, chk, sel) ==
  LET x == extractElementValue(e, val, chk, sel) IN
  IF x.elementType \in {"input-checkbox", "input-radio"} THEN TRUE
  ELSE IF x.elementType = "select"
  THEN ~(x.content = <<>> \/ x.content = <<"[", "]">>)
  ELSE LET trimmedContent == MeasuredText(e, val, chk, sel) IN
       ~(trimmedContent = <<>> \/ StrLength(trimmedContent) < MinTextLength)

\* a saveDraft without the isConnected test
SaveDraftSends_IgnoresConnection(e, conn, val, chk, sel) ==
  PassesContentCheck(e, val, chk, sel)

\* saveDraft(el) gets as far as chrome.runtime.sendMessage
SaveDraftSends(e, conn, val, chk, sel) ==
  e \in conn /\ PassesContentCheck(e, val, chk, sel)

\* the draft object saveDraft builds at time t
BuildDraft(e, val, chk, sel, t) ==
  LET x == extractElementValue(e, val, chk, sel) IN
  [url |-> href, content |-> x.content, timestamp |-> t, lastAccessed |-> t,
   elementType |-> x.elementType,
   isRichText |-> (x.elementType = "contenteditable"),
   domain |-> hostname]

\* the background task a SAVE_DRAFT message starts
\* (el, path and calls record where the message came from)
SaveTask(e, conn, val, chk, sel, t, path, calls) ==
  [type |-> "SAVE_DRAFT", draftKey |-> generateDraftKey(e, conn),
   draft |-> BuildDraft(e, val, chk, sel, t), el |-> e, path |-> path,
   calls |-> calls, pc |-> "sent", local |-> EmptyMap, hasChanges |-> FALSE,
   response |-> "", responses |-> 0, answer |-> <<>>]

\* the messages saveDraft(el) sends: one or none
saveDraft(e, conn, val, chk, sel, t, path, calls) ==
  IF SaveDraftSends(e, conn, val, chk, sel)
  THEN <<SaveTask(e, conn, val, chk, sel, t, path, calls)>>
  ELSE <<>>

----------------------------------------------------------------------------
(* debounce *)

NoTimer == [el |-> "", deadline |-> 0]

NoBurst == [el |-> "", count |-> 0, last |-> 0]

\* the burst after n more debouncedSave(e) calls at time t; the count
\* saturates at 2
BurstAfter(b, e, n, t) ==
  [el |-> e,
   count |-> IF (IF b.el = e THEN b.count ELSE 0) + n >= 2 THEN 2
             ELSE (IF b.el = e THEN b.count ELSE 0) + n,
   last |-> t]

\* debounce without clearTimeout: every call queues one more timer
debounce_NoClear(st, e, t) ==
  LET new == [el |-> e, deadline |-> t + DebounceDelay] IN
  [timers |-> st.timers \cup {new}, timeoutId |-> new]

\* debounce that keeps a pending timer instead of restarting the wait
debounce_KeepFirst(st, e, t) ==
  LET new == [el |-> e, deadline |-> t + DebounceDelay] IN
  IF st.timeoutId \in st.timers THEN st
  ELSE [timers |-> st.timers \cup {new}, timeoutId |-> new]

\* one call debounced(e) at time t: clearTimeout(timeoutId); setTimeout(...)
debounce(st, e, t) ==
  LET new == [el |-> e, deadline |-> t + DebounceDelay] IN
  [timers |-> (st.timers \ {st.timeoutId}) \cup {new}, timeoutId |-> new]

RECURSIVE debounceTimes(_, _, _, _)
\* n listeners calling debouncedSave(e) one after the other
debounceTimes(st, e, t, n) ==
  IF n = 0 THEN st ELSE debounceTimes(debounce(st, e, t), e, t, n - 1)

----------------------------------------------------------------------------
(* Initial state *)

OldKey == <<hostname, "title">>

\* a draft an earlier page session left in the store
OldDraft(t) ==
  [url |-> href, content |-> <<"o", "l", "d">>, timestamp |-> t,
   lastAccessed |-> t, elementType |-> "input-text", isRichText |-> FALSE,
   domain |-> hostname]

InitialStores ==
  { EmptyMap,
    Put(EmptyMap, OldKey, OldDraft(StartTime - EXPIRY_MILLISECONDS - 1)),
    Put(EmptyMap, OldKey, OldDraft(StartTime - EXPIRY_MILLISECONDS + 2)) }

IsCheckable(d) == d.tagName = "INPUT" /\ d.type \in {"checkbox", "radio"}

\* no element has been handed to the classifier
NoProbe ==
  [el |-> NoAttrs, cachedData |-> FALSE, height |-> 0, classified |-> FALSE,
   result |-> FALSE]

\* no restore has run
\* the inline style the page gave its elements
PageStyle(e) ==
  IF e = "ed"
  THEN [boxShadow |-> "0 0 2px gray", transition |-> "color 1s"]
  ELSE [boxShadow |-> "", transition |-> ""]

NoRestore ==
  [path |-> "", key |-> <<"", "">>, draft |-> OldDraft(0), target |-> "",
   property |-> "", assigned |-> <<>>, events |-> <<>>, shown |-> <<>>,
   pc |-> "idle", task |-> 0]

InitPage ==
  /\ now = StartTime
  /\ connected \in Pages
  /\ detached = {}
  /\ value = [e \in Elems |-> <<>>]
  /\ checked \in [Elems -> BOOLEAN]
  /\ \A e \in Elems : checked[e] => e \in connected /\ IsCheckable(ElemDef[e])
  /\ selectedOptions \in [Elems -> {{}, {0, 1}}]
  /\ \A e \in Elems :
       selectedOptions[e] # {} => e \in connected /\ ElemDef[e].tagName = "SELECT"
  /\ elementDataMap = EmptyMap
  /\ attached = [e \in Elems |-> 0]
  /\ timers = {}
  /\ timeoutId = NoTimer
  /\ tasks = <<>>
  /\ phase = "live"
  /\ burst = NoBurst
  /\ probe = NoProbe
  /\ allDrafts = {}
  /\ restore = NoRestore
  /\ style = [e \in Elems |-> PageStyle(e)]
  /\ highlights = <<>>

Init == InitPage /\ store = EmptyMap

\* the page is the form
InitForm ==
  /\ now = StartTime
  /\ connected = FormPage
  /\ detached = {}
  /\ value = [e \in Elems |-> <<>>]
  /\ checked \in [Elems -> BOOLEAN]
  /\ \A e \in Elems : checked[e] => e \in connected /\ IsCheckable(ElemDef[e])
  /\ selectedOptions = [e \in Elems |-> {}]
  /\ elementDataMap = EmptyMap
  /\ attached = [e \in Elems |-> 0]
  /\ timers = {}
  /\ timeoutId = NoTimer
  /\ tasks = <<>>
  /\ phase = "live"
  /\ burst = NoBurst
  /\ probe = NoProbe
  /\ allDrafts = {}
  /\ restore = NoRestore
  /\ style = [e \in Elems |-> PageStyle(e)]
  /\ highlights = <<>>
  /\ store = EmptyMap

----------------------------------------------------------------------------
(* The content script: events of the page *)

\* the budget of background tasks covers the pending timers too
WithinBudget(newTasks, newTimers) ==
  Len(newTasks) + Cardinality(newTimers) <= MaxTasks

\* the clock advances; a timer of a live page that is due fires first
Tick ==
  /\ now < StartTime + MaxTime
  /\ phase = "unloading" \/ \A t \in timers : t.deadline > now
  /\ now' = now + 1
  /\ UNCHANGED <<connected, detached, value, checked, selectedOptions,
                 elementDataMap, attached, timers, timeoutId, tasks, store,
                 phase, burst, probe, allDrafts, restore, style, highlights>>

\* 'input' listeners of the document and of the element itself
InputListeners(e) ==
  IF shouldSaveElement(e, elementDataMap)
  THEN debounceTimes([timers |-> timers, timeoutId |-> timeoutId], e, now,
                     1 + attached[e])
  ELSE [timers |-> timers, timeoutId |-> timeoutId]

InputBurst(e) ==
  IF shouldSaveElement(e, elementDataMap)
  THEN BurstAfter(burst, e, 1 + attached[e], now) ELSE burst

\* the user types into a text element: an 'input' event
Input(e, v) ==
  /\ phase = "live"
  /\ e \in connected /\ e \in TextElems
  /\ v \in ValuesOf(e) /\ v # value[e]
  /\ value' = [value EXCEPT ![e] = v]
  /\ timers' = InputListeners(e).timers
  /\ timeoutId' = InputListeners(e).timeoutId
  /\ elementDataMap' = CacheAfter(e, elementDataMap)
  /\ WithinBudget(tasks, timers')
  /\ burst' = InputBurst(e)
  /\ UNCHANGED <<now, connected, detached, checked, selectedOptions, attached,
                 tasks, store, phase, probe, allDrafts, restore,
                 style, highlights>>

\* a text element loses focus after an edit: a 'change' event
TextChange(e) ==
  /\ phase = "live"
  /\ e \in connected /\ e \in TextElems
  /\ shouldSaveElement(e, elementDataMap)
  /\ LET st == debounce([timers |-> timers, timeoutId |-> timeoutId], e, now)
     IN /\ timers' = st.timers
        /\ timeoutId' = st.timeoutId
  /\ elementDataMap' = CacheAfter(e, elementDataMap)
  /\ WithinBudget(tasks, timers')
  /\ burst' = BurstAfter(burst, e, 1, now)
  /\ UNCHANGED <<now, connected, detached, value, checked, selectedOptions,
                 attached, tasks, store, phase, probe, allDrafts, restore,
                 style, highlights>>

RECURSIVE Repeat(_, _)
Repeat(s, n) == IF n = 0 THEN <<>> ELSE s \o Repeat(s, n - 1)

\* the document's 'change' listener runs saveDraft(target) for a select,
\* checkbox or radio
DocumentChangeListener(e, chk, sel) ==
  IF shouldSaveElement(e, elementDataMap)
  THEN saveDraft(e, connected, value, chk, sel, now, "change", 0)
  ELSE <<>>

\* the 'change' listeners of a select, checkbox or radio: the document's
\* listener and the element's own, one per attachEventListeners call, which
\* make the same test and the same call
ChangeListeners(e, chk, sel) ==
  Repeat(DocumentChangeListener(e, chk, sel), 1 + attached[e])

\* the user toggles a checkbox or radio, or picks options of a select:
\* the browser dispatches 'input' and then 'change'
ChoiceChange(e, c, o) ==
  /\ phase = "live"
  /\ e \in connected /\ e \notin TextElems
  /\ IF ElemDef[e].tagName = "SELECT"
     THEN c = checked[e] /\ o # selectedOptions[e]
     ELSE c # checked[e] /\ o = selectedOptions[e]
  /\ checked' = [checked EXCEPT ![e] = c]
  /\ selectedOptions' = [selectedOptions EXCEPT ![e] = o]
  /\ timers' = InputListeners(e).timers
  /\ timeoutId' = InputListeners(e).timeoutId
  /\ tasks' = tasks \o ChangeListeners(e, checked', selectedOptions')
  /\ WithinBudget(tasks \o DocumentChangeListener(e, checked', selectedOptions'),
                  timers')
  /\ burst' = InputBurst(e)
  /\ UNCHANGED <<now, connected, detached, value, elementDataMap, attached,
                 store, phase, probe, allDrafts, restore, style, highlights>>

\* a debounce timer fires: func.apply(this, args), that is saveDraft(el)
TimerFire(t) ==
  /\ phase # "unloading"
  /\ t \in timers
  /\ now >= t.deadline
  /\ timers' = timers \ {t}
  /\ tasks' = tasks \o saveDraft(t.el, connected, value, checked,
                                 selectedOptions, now, "timer",
                                 IF burst.el = t.el THEN burst.count ELSE 0)
  /\ burst' = IF burst.el = t.el THEN NoBurst ELSE burst
  /\ UNCHANGED <<now, connected, detached, value, checked, selectedOptions,
                 elementDataMap, attached, timeoutId, store, phase,
                 probe, allDrafts, restore, style, highlights>>

RECURSIVE FlushFrom(_, _)
\* the forEach of the beforeunload listener over the elements from position i:
\* the messages it sends and the height cache it leaves
FlushFrom(i, cache) ==
  IF i > Len(ElemOrder) THEN [sent |-> <<>>, cache |-> cache]
  ELSE LET e == ElemOrder[i]
           rest == FlushFrom(i + 1, IF e \in connected
                                    THEN CacheAfter(e, cache) ELSE cache)
       IN IF e \in connected /\ shouldSaveElement(e, cache)
          THEN [sent |-> saveDraft(e, connected, value, checked,
                                   selectedOptions, now, "unload", 0)
                          \o rest.sent,
                cache |-> rest.cache]
          ELSE rest

\* window 'beforeunload': the listener runs, then the page is torn down and
\* its timers never fire
BeforeUnload ==
  /\ phase # "unloading"
  /\ tasks' = tasks \o FlushFrom(1, elementDataMap).sent
  /\ elementDataMap' = FlushFrom(1, elementDataMap).cache
  /\ Len(tasks') <= MaxTasks
  /\ phase' = "unloading"
  /\ UNCHANGED <<now, connected, detached, value, checked, selectedOptions,
                 attached, timers, timeoutId, store, burst,
                 probe, allDrafts, restore, style, highlights>>

\* document 'visibilitychange' to hidden: the script registers no listener
VisibilityHidden ==
  /\ phase = "live"
  /\ phase' = "hidden"
  /\ UNCHANGED <<now, connected, detached, value, checked, selectedOptions,
                 elementDataMap, attached, timers, timeoutId, tasks, store,
                 burst, probe, allDrafts, restore, style, highlights>>

\* document 'visibilitychange' to visible
VisibilityVisible ==
  /\ phase = "hidden"
  /\ phase' = "live"
  /\ UNCHANGED <<now, connected, detached, value, checked, selectedOptions,
                 elementDataMap, attached, timers, timeoutId, tasks, store,
                 burst, probe, allDrafts, restore, style, highlights>>

\* the page removes an element from the document
RemoveElement(e) ==
  /\ phase = "live"
  /\ e \in connected
  /\ connected' = connected \ {e}
  /\ detached' = detached \cup {e}
  /\ UNCHANGED <<now, value, checked, selectedOptions, elementDataMap,
                 attached, timers, timeoutId, tasks, store, phase, burst,
                 probe, allDrafts, restore, style, highlights>>

\* the page inserts an element; the MutationObserver sees the added node
InsertElement(e) ==
  /\ phase = "live"
  /\ e \in detached
  /\ attached[e] < MaxAttach
  /\ connected' = connected \cup {e}
  /\ detached' = detached \ {e}
  /\ attached' = IF shouldSaveElement(e, elementDataMap)
                 THEN [attached EXCEPT ![e] = @ + 1] ELSE attached
  /\ elementDataMap' = CacheAfter(e, elementDataMap)
  /\ UNCHANGED <<now, value, checked, selectedOptions, timers, timeoutId,
                 tasks, store, phase, burst, probe, allDrafts, restore,
                 style, highlights>>

----------------------------------------------------------------------------
(* The service worker: src/background.js *)

\* lastAccessTime = draft.lastAccessed || draft.timestamp
LastAccessTime(draft) ==
  IF draft.lastAccessed # 0 THEN draft.lastAccessed ELSE draft.timestamp

\* the keys cleanExpiredDrafts deletes from the map it read, at time t
ExpiredKeys(drafts, t) ==
  {k \in DOMAIN drafts : t - LastAccessTime(drafts[k]) > EXPIRY_MILLISECONDS}

\* a handler that keeps the creation time of a draft it overwrites
HandleSaveGet_KeepsTimestamp(i) ==
  /\ i \in 1..Len(tasks)
  /\ tasks[i].type = "SAVE_DRAFT" /\ tasks[i].pc = "sent"
  /\ LET k == tasks[i].draftKey
         d == IF k \in DOMAIN store
              THEN [tasks[i].draft EXCEPT !.timestamp = store[k].timestamp]
              ELSE tasks[i].draft
     IN tasks' = [tasks EXCEPT ![i] =
                    [@ EXCEPT !.pc = "read", !.local = Put(store, k, d)]]
  /\ UNCHANGED <<now, connected, detached, value, checked, selectedOptions,
                 elementDataMap, attached, timers, timeoutId, store, phase,
                 burst, probe, allDrafts, restore, style, highlights>>

\* handleSaveDraft up to its second await: storage.get resolves, the handler
\* sets drafts[request.draftKey] and calls storage.set
HandleSaveGet(i) ==
  /\ i \in 1..Len(tasks)
  /\ tasks[i].type = "SAVE_DRAFT" /\ tasks[i].pc = "sent"
  /\ tasks' = [tasks EXCEPT ![i] =
                 [@ EXCEPT !.pc = "read",
                           !.local = Put(store, tasks[i].draftKey,
                                         tasks[i].draft)]]
  /\ UNCHANGED <<now, connected, detached, value, checked, selectedOptions,
                 elementDataMap, attached, timers, timeoutId, store, phase,
                 burst, probe, allDrafts, restore, style, highlights>>

\* storage.set({ drafts }) of handleSaveDraft takes effect
HandleSaveSet(i) ==
  /\ i \in 1..Len(tasks)
  /\ tasks[i].type = "SAVE_DRAFT" /\ tasks[i].pc = "read"
  /\ store' = tasks[i].local
  /\ tasks' = [tasks EXCEPT ![i] = [@ EXCEPT !.pc = "written",
                                             !.local = EmptyMap]]
  /\ UNCHANGED <<now, connected, detached, value, checked, selectedOptions,
                 elementDataMap, attached, timers, timeoutId, phase, burst,
                 probe, allDrafts, restore, style, highlights>>

\* sendResponse({ success: true })
HandleSaveRespond(i) ==
  /\ i \in 1..Len(tasks)
  /\ tasks[i].type = "SAVE_DRAFT" /\ tasks[i].pc = "written"
  /\ tasks' = [tasks EXCEPT ![i] =
                 [@ EXCEPT !.pc = "done", !.response = "success",
                           !.responses = @ + 1]]
  /\ UNCHANGED <<now, connected, detached, value, checked, selectedOptions,
                 elementDataMap, attached, timers, timeoutId, store, phase,
                 burst, probe, allDrafts, restore, style, highlights>>

----------------------------------------------------------------------------
(* The specification: one page and the service worker *)

PageNext ==
  \/ Tick
  \/ \E e \in Elems : \E v \in ValuesOf(e) : Input(e, v)
  \/ \E e \in Elems : TextChange(e)
  \/ \E e \in Elems : \E c \in BOOLEAN :
       \E o \in SUBSET (0..(Len(OptionJSON) - 1)) : ChoiceChange(e, c, o)
  \/ \E t \in timers : TimerFire(t)
  \/ BeforeUnload
  \/ VisibilityHidden
  \/ VisibilityVisible

Next ==
  \/ PageNext
  \/ \E i \in 1..Len(tasks) : HandleSaveGet(i)
  \/ \E i \in 1..Len(tasks) : HandleSaveSet(i)
  \/ \E i \in 1..Len(tasks) : HandleSaveRespond(i)

Spec == Init /\ [][Next]_vars

\* the same script and worker on the form page
SpecForm == InitForm /\ [][Next]_vars

\* the page alone, with elements that come and go; nothing answers
DomNext ==
  \/ PageNext
  \/ \E e \in Elems : RemoveElement(e)
  \/ \E e \in Elems : InsertElement(e)

SpecPage == Init /\ [][DomNext]_vars

TypeOK ==
  /\ now \in StartTime..(StartTime + MaxTime + MaxLegacyTime)
  /\ connected \subseteq Elems /\ detached \subseteq Elems
  /\ timers \subseteq [el : Elems, deadline : Nat]
  /\ Len(tasks) <= MaxTasks

----------------------------------------------------------------------------
(* The service worker alone: requests of any page, and the expiry sweep *)

StoreKeys == { <<hostname, "editor">>, <<hostname, "textarea_pos_0">> }

\* chrome.runtime.sendMessage({type: 'SAVE_DRAFT', draftKey, draft}) of some
\* page: the message reaches the service worker
SendSave(k, c) ==
  /\ k \in StoreKeys
  /\ Len(tasks) < MaxTasks
  /\ tasks' = tasks \o
       << [type |-> "SAVE_DRAFT", draftKey |-> k,
           draft |-> [url |-> href, content |-> c, timestamp |-> now,
                      lastAccessed |-> now, elementType |-> "textarea",
                      isRichText |-> FALSE, domain |-> hostname],
           el |-> "", path |-> "page", calls |-> 0, pc |-> "sent",
           local |-> EmptyMap, hasChanges |-> FALSE, response |-> "",
           responses |-> 0, answer |-> <<>>] >>
  /\ UNCHANGED <<now, connected, detached, value, checked, selectedOptions,
                 elementDataMap, attached, timers, timeoutId, store, phase,
                 burst, probe, allDrafts, restore, style, highlights>>

SweepTask ==
  [type |-> "SWEEP", draftKey |-> <<"", "">>, draft |-> OldDraft(0),
   el |-> "", path |-> "alarm", calls |-> 0, pc |-> "sent",
   local |-> EmptyMap, hasChanges |-> FALSE, response |-> "",
   responses |-> 0, answer |-> <<>>]

\* the alarm or onInstalled calls cleanExpiredDrafts: storage.get is issued
CleanStart ==
  /\ Len(tasks) < MaxTasks
  /\ tasks' = tasks \o <<SweepTask>>
  /\ UNCHANGED <<now, connected, detached, value, checked, selectedOptions,
                 elementDataMap, attached, timers, timeoutId, store, phase,
                 burst, probe, allDrafts, restore, style, highlights>>

\* a sweep that writes its copy back whether or not it deleted from it
CleanGet_AlwaysWrites(i) ==
  /\ i \in 1..Len(tasks)
  /\ tasks[i].type = "SWEEP" /\ tasks[i].pc = "sent"
  /\ LET expired == ExpiredKeys(store, now)
     IN tasks' = [tasks EXCEPT ![i] =
                    [@ EXCEPT !.pc = "read",
                              !.local = Without(store, expired),
                              !.hasChanges = TRUE]]
  /\ UNCHANGED <<now, connected, detached, value, checked, selectedOptions,
                 elementDataMap, attached, timers, timeoutId, store, phase,
                 burst, probe, allDrafts, restore, style, highlights>>

\* a sweep that clears the access time of the entries it keeps
CleanGet_ClearsAccess(i) ==
  /\ i \in 1..Len(tasks)
  /\ tasks[i].type = "SWEEP" /\ tasks[i].pc = "sent"
  /\ LET expired == ExpiredKeys(store, now)
         hasChanges == expired # {}
         kept == Without(store, expired)
     IN tasks' = [tasks EXCEPT ![i] =
                    [@ EXCEPT !.pc = IF hasChanges THEN "read" ELSE "done",
                              !.local = IF hasChanges
                                        THEN [k \in DOMAIN kept |->
                                                [kept[k] EXCEPT
                                                   !.lastAccessed = 0]]
                                        ELSE EmptyMap,
                              !.hasChanges = hasChanges]]
  /\ UNCHANGED <<now, connected, detached, value, checked, selectedOptions,
                 elementDataMap, attached, timers, timeoutId, store, phase,
                 burst, probe, allDrafts, restore, style, highlights>>

\* cleanExpiredDrafts after its first await: it deletes the expired entries
\* from its copy and calls storage.set only if hasChanges
CleanGet(i) ==
  /\ i \in 1..Len(tasks)
  /\ tasks[i].type = "SWEEP" /\ tasks[i].pc = "sent"
  /\ LET expired == ExpiredKeys(store, now)
         hasChanges == expired # {}
     IN tasks' = [tasks EXCEPT ![i] =
                    [@ EXCEPT !.pc = IF hasChanges THEN "read" ELSE "done",
                              !.local = IF hasChanges
                                        THEN Without(store, expired)
                                        ELSE EmptyMap,
                              !.hasChanges = hasChanges]]
  /\ UNCHANGED <<now, connected, detached, value, checked, selectedOptions,
                 elementDataMap, attached, timers, timeoutId, store, phase,
                 burst, probe, allDrafts, restore, style, highlights>>

\* storage.set({ drafts }) of cleanExpiredDrafts takes effect
CleanSet(i) ==
  /\ i \in 1..Len(tasks)
  /\ tasks[i].type = "SWEEP" /\ tasks[i].pc = "read"
  /\ store' = tasks[i].local
  /\ tasks' = [tasks EXCEPT ![i] = [@ EXCEPT !.pc = "done",
                                             !.local = EmptyMap]]
  /\ UNCHANGED <<now, connected, detached, value, checked, selectedOptions,
                 elementDataMap, attached, timers, timeoutId, phase, burst,
                 probe, allDrafts, restore, style, highlights>>

\* restoreDraft or handleRestore, after it applied the draft to the page:
\* sendMessage({type: 'UPDATE_DRAFT_ACCESS', draftKey: draft.key}) for a draft
\* that was listed to the user
SendUpdateAccess(k) ==
  /\ k \in DOMAIN store
  /\ Len(tasks) < MaxTasks
  /\ tasks' = tasks \o
       << [type |-> "UPDATE_DRAFT_ACCESS", draftKey |-> k,
           draft |-> OldDraft(0), el |-> "", path |-> "restore",
           calls |-> 0, pc |-> "sent", local |-> EmptyMap,
           hasChanges |-> FALSE, response |-> "", responses |-> 0,
           answer |-> <<>>] >>
  /\ UNCHANGED <<now, connected, detached, value, checked, selectedOptions,
                 elementDataMap, attached, timers, timeoutId, store, phase,
                 burst, probe, allDrafts, restore, style, highlights>>

\* a handler that stamps the creation time instead of the access time
HandleAccessGet_StampsTimestamp(i) ==
  /\ i \in 1..Len(tasks)
  /\ tasks[i].type = "UPDATE_DRAFT_ACCESS" /\ tasks[i].pc = "sent"
  /\ LET k == tasks[i].draftKey IN
     IF k \in DOMAIN store
     THEN tasks' = [tasks EXCEPT ![i] =
                      [@ EXCEPT !.pc = "read",
                                !.draft = [store[k] EXCEPT !.timestamp = now],
                                !.local = [store EXCEPT ![k].timestamp = now]]]
     ELSE tasks' = [tasks EXCEPT ![i] =
                      [@ EXCEPT !.pc = "done", !.response = "no such draft",
                                !.responses = @ + 1]]
  /\ UNCHANGED <<now, connected, detached, value, checked, selectedOptions,
                 elementDataMap, attached, timers, timeoutId, store, phase,
                 burst, probe, allDrafts, restore, style, highlights>>

\* a handler that stamps the key whether or not the map has it
HandleAccessGet_Creates(i) ==
  /\ i \in 1..Len(tasks)
  /\ tasks[i].type = "UPDATE_DRAFT_ACCESS" /\ tasks[i].pc = "sent"
  /\ LET k == tasks[i].draftKey
         d == IF k \in DOMAIN store
              THEN [store[k] EXCEPT !.lastAccessed = now]
              ELSE [lastAccessed |-> now]
     IN tasks' = [tasks EXCEPT ![i] =
                    [@ EXCEPT !.pc = "read", !.draft = d,
                              !.local = Put(store, k, d)]]
  /\ UNCHANGED <<now, connected, detached, value, checked, selectedOptions,
                 elementDataMap, attached, timers, timeoutId, store, phase,
                 burst, probe, allDrafts, restore, style, highlights>>

\* handleUpdateDraftAccess after storage.get resolves: it stamps the entry in
\* its copy and calls storage.set, or answers that the draft does not exist
HandleAccessGet(i) ==
  /\ i \in 1..Len(tasks)
  /\ tasks[i].type = "UPDATE_DRAFT_ACCESS" /\ tasks[i].pc = "sent"
  /\ LET k == tasks[i].draftKey IN
     IF k \in DOMAIN store
     THEN tasks' = [tasks EXCEPT ![i] =
                      [@ EXCEPT !.pc = "read",
                                !.draft = [store[k] EXCEPT !.lastAccessed = now],
                                !.local = [store EXCEPT ![k].lastAccessed = now]]]
     ELSE tasks' = [tasks EXCEPT ![i] =
                      [@ EXCEPT !.pc = "done", !.response = "no such draft",
                                !.responses = @ + 1]]
  /\ UNCHANGED <<now, connected, detached, value, checked, selectedOptions,
                 elementDataMap, attached, timers, timeoutId, store, phase,
                 burst, probe, allDrafts, restore, style, highlights>>

\* storage.set({ drafts }) of handleUpdateDraftAccess takes effect
HandleAccessSet(i) ==
  /\ i \in 1..Len(tasks)
  /\ tasks[i].type = "UPDATE_DRAFT_ACCESS" /\ tasks[i].pc = "read"
  /\ store' = tasks[i].local
  /\ tasks' = [tasks EXCEPT ![i] = [@ EXCEPT !.pc = "written",
                                             !.local = EmptyMap]]
  /\ UNCHANGED <<now, connected, detached, value, checked, selectedOptions,
                 elementDataMap, attached, timers, timeoutId, phase, burst,
                 probe, allDrafts, restore, style, highlights>>

\* sendResponse({ success: true }) of handleUpdateDraftAccess
HandleAccessRespond(i) ==
  /\ i \in 1..Len(tasks)
  /\ tasks[i].type = "UPDATE_DRAFT_ACCESS" /\ tasks[i].pc = "written"
  /\ tasks' = [tasks EXCEPT ![i] =
                 [@ EXCEPT !.pc = "done", !.response = "success",
                           !.responses = @ + 1]]
  /\ UNCHANGED <<now, connected, detached, value, checked, selectedOptions,
                 elementDataMap, attached, timers, timeoutId, store, phase,
                 burst, probe, allDrafts, restore, style, highlights>>

NoPage ==
  /\ now = StartTime
  /\ connected = {}
  /\ detached = {}
  /\ value = [e \in Elems |-> <<>>]
  /\ checked = [e \in Elems |-> FALSE]
  /\ selectedOptions = [e \in Elems |-> {}]
  /\ elementDataMap = EmptyMap
  /\ attached = [e \in Elems |-> 0]
  /\ timers = {}
  /\ timeoutId = NoTimer
  /\ tasks = <<>>
  /\ phase = "live"
  /\ burst = NoBurst
  /\ probe = NoProbe
  /\ allDrafts = {}
  /\ restore = NoRestore
  /\ style = [e \in Elems |-> PageStyle(e)]
  /\ highlights = <<>>

InitStore == NoPage /\ store \in InitialStores

StoreNext ==
  \/ Tick
  \/ \E k \in StoreKeys : SendSave(k, <<"a", "b", "c">>)
  \/ \E i \in 1..Len(tasks) : HandleSaveGet(i)
  \/ \E i \in 1..Len(tasks) : HandleSaveSet(i)
  \/ \E i \in 1..Len(tasks) : HandleSaveRespond(i)
  \/ CleanStart
  \/ \E i \in 1..Len(tasks) : CleanGet(i)
  \/ \E i \in 1..Len(tasks) : CleanSet(i)
  \/ \E k \in DOMAIN store : SendUpdateAccess(k)
  \/ \E i \in 1..Len(tasks) : HandleAccessGet(i)
  \/ \E i \in 1..Len(tasks) : HandleAccessSet(i)
  \/ \E i \in 1..Len(tasks) : HandleAccessRespond(i)

SpecStore == InitStore /\ [][StoreNext]_vars

----------------------------------------------------------------------------
(* The older content script: src/content-scripts/auto-save.js *)

\* el.placeholder?.toLowerCase().includes('comment')
IncludesComment(s) == s \in {"comment", "Add a Comment"}
\* /body|content|message|description/i
MatchesLegacyName(s) == s \in {"body", "message", "content", "description"}

LegacyShouldSave(e) ==
  LET d == ElemDef[e] IN
  IF d.type = "password" \/ d.typeAttr = "search" THEN FALSE
  ELSE IF d.isContentEditable THEN TRUE
  ELSE \/ d.tagName = "TEXTAREA"
       \/ d.scrollHeight > 150
       \/ IncludesComment(d.placeholder)
       \/ MatchesLegacyName(d.name)

\* el.isContentEditable ? el.innerHTML : el.value
LegacyContent(e) == value[e]

\* content.trim() is not the empty string
LegacyNonEmpty(e) == Trim(LegacyContent(e)) # <<>>

\* the same debounce function, declared again in auto-save.js
LegacyDebounce(st, e, t) == debounce(st, e, t)

\* saveDraft of auto-save.js is debounce(async (el) => {...}, 3000)
LegacySaveDraft(st, e, t) == LegacyDebounce(st, e, t)

\* 'input' listener of auto-save.js
LegacyInput(e, v) ==
  /\ phase = "live"
  /\ e \in connected /\ e \in TextElems
  /\ v \in ValuesOf(e) /\ v # value[e]
  /\ value' = [value EXCEPT ![e] = v]
  /\ LET st == IF LegacyShouldSave(e)
               THEN LegacySaveDraft([timers |-> timers,
                                     timeoutId |-> timeoutId], e, now)
               ELSE [timers |-> timers, timeoutId |-> timeoutId]
     IN /\ timers' = st.timers
        /\ timeoutId' = st.timeoutId
  /\ WithinBudget(tasks, timers')
  /\ UNCHANGED <<now, connected, detached, checked, selectedOptions,
                 elementDataMap, attached, tasks, store, phase, burst,
                 probe, allDrafts, restore, style, highlights>>

\* the draft the debounced function builds; it has no lastAccessed (0 here),
\* elementType or domain
LegacyDraft(e, t) ==
  [url |-> href, content |-> LegacyContent(e), timestamp |-> t,
   lastAccessed |-> 0, elementType |-> "",
   isRichText |-> ElemDef[e].isContentEditable, domain |-> ""]

\* the timer fires: the debounced function runs up to its first await
LegacyTimerFire(t) ==
  /\ phase # "unloading"
  /\ t \in timers
  /\ now >= t.deadline
  /\ timers' = timers \ {t}
  /\ tasks' = IF LegacyNonEmpty(t.el)
              THEN tasks \o
                   << [type |-> "LEGACY_SAVE", draftKey |-> <<"", "">>,
                       draft |-> LegacyDraft(t.el, now), el |-> t.el,
                       path |-> "timer", calls |-> 0, pc |-> "sent",
                       local |-> EmptyMap, hasChanges |-> FALSE,
                       response |-> "", responses |-> 0,
                       answer |-> <<>>] >>
              ELSE tasks
  /\ UNCHANGED <<now, connected, detached, value, checked, selectedOptions,
                 elementDataMap, attached, timeoutId, store, phase, burst,
                 probe, allDrafts, restore, style, highlights>>

\* `${window.location.hostname}_${el.id || Date.now()}`
LegacyKey(e, t) ==
  <<hostname, IF ElemDef[e].id # "" THEN ElemDef[e].id ELSE ToString(t)>>

\* storage.get resolves: the function computes the key, sets drafts[key] and
\* calls storage.set
LegacyGet(i) ==
  /\ i \in 1..Len(tasks)
  /\ tasks[i].type = "LEGACY_SAVE" /\ tasks[i].pc = "sent"
  /\ tasks' = [tasks EXCEPT ![i] =
                 [@ EXCEPT !.pc = "read",
                           !.draftKey = LegacyKey(tasks[i].el, now),
                           !.local = Put(store, LegacyKey(tasks[i].el, now),
                                         tasks[i].draft)]]
  /\ UNCHANGED <<now, connected, detached, value, checked, selectedOptions,
                 elementDataMap, attached, timers, timeoutId, store, phase,
                 burst, probe, allDrafts, restore, style, highlights>>

\* storage.set({ drafts }) of auto-save.js takes effect
LegacySet(i) ==
  /\ i \in 1..Len(tasks)
  /\ tasks[i].type = "LEGACY_SAVE" /\ tasks[i].pc = "read"
  /\ store' = tasks[i].local
  /\ tasks' = [tasks EXCEPT ![i] = [@ EXCEPT !.pc = "done",
                                             !.local = EmptyMap]]
  /\ UNCHANGED <<now, connected, detached, value, checked, selectedOptions,
                 elementDataMap, attached, timers, timeoutId, phase, burst,
                 probe, allDrafts, restore, style, highlights>>

\* document.querySelectorAll('textarea, [contenteditable]')
LegacySelected(e) ==
  /\ e \in connected
  /\ ElemDef[e].tagName = "TEXTAREA" \/ ElemDef[e].contenteditableAttr # ""

RECURSIVE LegacyFlushFrom(_, _)
\* the forEach of the beforeunload listener from position i: each element
\* that passes goes into saveDraft, the debounced function
LegacyFlushFrom(i, st) ==
  IF i > Len(ElemOrder) THEN st
  ELSE LET e == ElemOrder[i] IN
       LegacyFlushFrom(i + 1,
         IF LegacySelected(e) /\ LegacyShouldSave(e) /\ LegacyNonEmpty(e)
         THEN LegacySaveDraft(st, e, now) ELSE st)

\* window 'beforeunload' of auto-save.js, then the page is torn down
LegacyBeforeUnload ==
  /\ phase # "unloading"
  /\ LET st == LegacyFlushFrom(1, [timers |-> timers, timeoutId |-> timeoutId])
     IN /\ timers' = st.timers
        /\ timeoutId' = st.timeoutId
  /\ phase' = "unloading"
  /\ UNCHANGED <<now, connected, detached, value, checked, selectedOptions,
                 elementDataMap, attached, tasks, store, burst,
                 probe, allDrafts, restore, style, highlights>>

\* the page the older script runs on
LegacyPage == {"ta", "ed", "pw"}

InitLegacy ==
  /\ now = StartTime
  /\ connected = LegacyPage
  /\ detached = {}
  /\ value = [e \in Elems |-> <<>>]
  /\ checked = [e \in Elems |-> FALSE]
  /\ selectedOptions = [e \in Elems |-> {}]
  /\ elementDataMap = EmptyMap
  /\ attached = [e \in Elems |-> 0]
  /\ timers = {}
  /\ timeoutId = NoTimer
  /\ tasks = <<>>
  /\ phase = "live"
  /\ burst = NoBurst
  /\ probe = NoProbe
  /\ allDrafts = {}
  /\ restore = NoRestore
  /\ style = [e \in Elems |-> PageStyle(e)]
  /\ highlights = <<>>
  /\ store \in {EmptyMap, Put(EmptyMap, OldKey, OldDraft(StartTime - 50))}

\* the clock of the older script's page
LegacyTick ==
  /\ now < StartTime + MaxLegacyTime
  /\ phase = "unloading" \/ \A t \in timers : t.deadline > now
  /\ now' = now + 1
  /\ UNCHANGED <<connected, detached, value, checked, selectedOptions,
                 elementDataMap, attached, timers, timeoutId, tasks, store,
                 phase, burst, probe, allDrafts, restore, style, highlights>>

LegacyNext ==
  \/ LegacyTick
  \/ \E e \in Elems : \E v \in ValuesOf(e) : LegacyInput(e, v)
  \/ \E t \in timers : LegacyTimerFire(t)
  \/ \E i \in 1..Len(tasks) : LegacyGet(i)
  \/ \E i \in 1..Len(tasks) : LegacySet(i)
  \/ LegacyBeforeUnload

SpecLegacy == InitLegacy /\ [][LegacyNext]_vars

----------------------------------------------------------------------------
(* Page URLs and stores left by earlier sessions *)

otherHref == "https://other.org/form"
editHref == "https://example.com/edit"
badHref == "not a url"

\* new URL(u) does not throw
IsParsable(u) == u \in {href, editHref, otherHref}

\* new URL(u).hostname
URLHostname(u) ==
  CASE u = href -> "example.com"
    [] u = editHref -> "example.com"
    [] u = otherHref -> "other.org"

OtherKey == <<"other.org", "title">>
BrokenKey == <<hostname, "broken">>
EditKey == <<hostname, "editor">>

\* created more than 30 days ago, restored a second ago
AccessedOldDraft ==
  [OldDraft(StartTime - EXPIRY_MILLISECONDS - 1)
     EXCEPT !.lastAccessed = StartTime - 1]

\* created and last accessed more than 30 days ago
ExpiredOldDraft == OldDraft(StartTime - EXPIRY_MILLISECONDS - 1)

\* a recent draft of another site
OtherDraft ==
  [OldDraft(StartTime - 3) EXCEPT !.url = otherHref, !.domain = "other.org"]

\* a recent entry whose url does not parse
BrokenDraft == [OldDraft(StartTime - 2) EXCEPT !.url = badHref]

\* a recent draft of this site, saved from another of its pages by a script
\* that writes no lastAccessed
EditDraft ==
  [OldDraft(StartTime - 3) EXCEPT !.url = editHref, !.lastAccessed = 0,
                                  !.isRichText = TRUE,
                                  !.elementType = "contenteditable"]

SeedKeys == {OldKey, OtherKey, BrokenKey, EditKey}

SeedDrafts(k) ==
  CASE k = OldKey -> {AccessedOldDraft, ExpiredOldDraft}
    [] k = OtherKey -> {OtherDraft}
    [] k = BrokenKey -> {BrokenDraft}
    [] k = EditKey -> {EditDraft}

\* the stores a worker can wake up to
SeedStores ==
  UNION { { m \in [D -> UNION {SeedDrafts(k) : k \in D}] :
              \A k \in D : m[k] \in SeedDrafts(k) } : D \in SUBSET SeedKeys }

\* Object.entries(drafts) as a set of [key, draft]
EntriesOf(m) == { [key |-> k, draft |-> m[k]] : k \in DOMAIN m }

\* the arrays that hold each member of S once
Orderings(S) ==
  { q \in [1..Cardinality(S) -> S] :
      \A a, b \in 1..Cardinality(S) : a # b => q[a] # q[b] }

\* the state of a worker with no page attached
NoPageAt(t) ==
  /\ now = t
  /\ connected = {}
  /\ detached = {}
  /\ value = [e \in Elems |-> <<>>]
  /\ checked = [e \in Elems |-> FALSE]
  /\ selectedOptions = [e \in Elems |-> {}]
  /\ elementDataMap = EmptyMap
  /\ attached = [e \in Elems |-> 0]
  /\ timers = {}
  /\ timeoutId = NoTimer
  /\ tasks = <<>>
  /\ phase = "live"
  /\ burst = NoBurst
  /\ probe = NoProbe
  /\ allDrafts = {}
  /\ restore = NoRestore
  /\ style = [e \in Elems |-> PageStyle(e)]
  /\ highlights = <<>>

----------------------------------------------------------------------------
(* The service worker with domain queries and failing storage *)

\* checkForDrafts: sendMessage({type: 'GET_DRAFTS_BY_DOMAIN', url})
SendQuery(u) ==
  /\ Len(tasks) < MaxTasks
  /\ tasks' = tasks \o
       << [type |-> "GET_DRAFTS_BY_DOMAIN", url |-> u,
           draftKey |-> <<"", "">>, draft |-> OldDraft(0), el |-> "",
           path |-> "page", calls |-> 0, pc |-> "sent", local |-> EmptyMap,
           hasChanges |-> FALSE, response |-> "", responses |-> 0,
           answer |-> <<>>] >>
  /\ UNCHANGED <<now, connected, detached, value, checked, selectedOptions,
                 elementDataMap, attached, timers, timeoutId, store, phase,
                 burst, probe, allDrafts, restore, style, highlights>>

\* a filter that compares the stored domain field and never parses the url
MatchedDrafts_ByDomainField(m, requestHostname) ==
  { x \in EntriesOf(m) : x.draft.domain = requestHostname }

\* the filter of handleGetDraftsByDomain: an entry whose url does not parse
\* is left out
MatchedDrafts(m, requestHostname) ==
  { x \in EntriesOf(m) :
      IF IsParsable(x.draft.url)
      THEN URLHostname(x.draft.url) = requestHostname
      ELSE FALSE }

\* .sort((a, b) => b.timestamp - a.timestamp): the arrays of S, newest first
SortedOrderings(S) ==
  { q \in Orderings(S) :
      \A a, b \in 1..Len(q) :
        a < b => q[a].draft.timestamp >= q[b].draft.timestamp }

\* the arrays handleGetDraftsByDomain can answer with for a parsable url u
QueryAnswers(m, u) == SortedOrderings(MatchedDrafts(m, URLHostname(u)))

\* handleGetDraftsByDomain after storage.get resolves: new URL(request.url)
\* throws into the catch, or the handler filters, sorts and answers
HandleQueryGet(i, q) ==
  /\ i \in 1..Len(tasks)
  /\ tasks[i].type = "GET_DRAFTS_BY_DOMAIN" /\ tasks[i].pc = "sent"
  /\ IF ~IsParsable(tasks[i].url)
     THEN /\ q = <<>>
          /\ tasks' = [tasks EXCEPT ![i] =
                         [@ EXCEPT !.pc = "done", !.response = "error",
                                   !.responses = @ + 1]]
     ELSE /\ q \in QueryAnswers(store, tasks[i].url)
          /\ tasks' = [tasks EXCEPT ![i] =
                         [@ EXCEPT !.pc = "done", !.response = "success",
                                   !.responses = @ + 1, !.answer = q]]
  /\ UNCHANGED <<now, connected, detached, value, checked, selectedOptions,
                 elementDataMap, attached, timers, timeoutId, store, phase,
                 burst, probe, allDrafts, restore, style, highlights>>

\* the arrays the handler of task i can answer with
QueryChoices(i) ==
  IF tasks[i].type = "GET_DRAFTS_BY_DOMAIN" /\ IsParsable(tasks[i].url)
  THEN QueryAnswers(store, tasks[i].url)
  ELSE {<<>>}

MessageTypes == {"SAVE_DRAFT", "GET_DRAFTS_BY_DOMAIN", "UPDATE_DRAFT_ACCESS"}

\* a catch block that only logs
Caught_Silent(t) == [t EXCEPT !.pc = "failed", !.local = EmptyMap]

\* what the catch block of the task's handler does: the message handlers
\* answer { success: false, error }, cleanExpiredDrafts only logs
Caught(t) ==
  IF t.type \in MessageTypes
  THEN [t EXCEPT !.pc = "failed", !.local = EmptyMap, !.response = "error",
                 !.responses = @ + 1]
  ELSE [t EXCEPT !.pc = "failed", !.local = EmptyMap]

\* chrome.storage.local.get rejects inside the try block of a handler
StorageGetRejects(i) ==
  /\ i \in 1..Len(tasks)
  /\ tasks[i].type \in MessageTypes \cup {"SWEEP"}
  /\ tasks[i].pc = "sent"
  /\ tasks' = [tasks EXCEPT ![i] = Caught(tasks[i])]
  /\ UNCHANGED <<now, connected, detached, value, checked, selectedOptions,
                 elementDataMap, attached, timers, timeoutId, store, phase,
                 burst, probe, allDrafts, restore, style, highlights>>

\* a rejected set whose write took effect all the same
StorageSetRejects_Written(i) ==
  /\ i \in 1..Len(tasks)
  /\ tasks[i].type \in MessageTypes \cup {"SWEEP"}
  /\ tasks[i].pc = "read"
  /\ store' = tasks[i].local
  /\ tasks' = [tasks EXCEPT ![i] = Caught(tasks[i])]
  /\ UNCHANGED <<now, connected, detached, value, checked, selectedOptions,
                 elementDataMap, attached, timers, timeoutId, phase, burst,
                 probe, allDrafts, restore, style, highlights>>

\* chrome.storage.local.set rejects inside the try block of a handler:
\* nothing is written
StorageSetRejects(i) ==
  /\ i \in 1..Len(tasks)
  /\ tasks[i].type \in MessageTypes \cup {"SWEEP"}
  /\ tasks[i].pc = "read"
  /\ tasks' = [tasks EXCEPT ![i] = Caught(tasks[i])]
  /\ UNCHANGED <<now, connected, detached, value, checked, selectedOptions,
                 elementDataMap, attached, timers, timeoutId, store, phase,
                 burst, probe, allDrafts, restore, style, highlights>>

WorkerStores ==
  { EmptyMap,
    Put(EmptyMap, OldKey, ExpiredOldDraft),
    Put(Put(EmptyMap, EditKey, EditDraft), BrokenKey, BrokenDraft) }

InitWorker == NoPageAt(StartTime) /\ store \in WorkerStores

WorkerNext ==
  \/ SendSave(EditKey, <<"a", "b", "c">>)
  \/ \E k \in DOMAIN store : SendUpdateAccess(k)
  \/ \E u \in {href, badHref} : SendQuery(u)
  \/ CleanStart
  \/ \E i \in 1..Len(tasks) : HandleSaveGet(i)
  \/ \E i \in 1..Len(tasks) : HandleSaveSet(i)
  \/ \E i \in 1..Len(tasks) : HandleSaveRespond(i)
  \/ \E i \in 1..Len(tasks) : HandleAccessGet(i)
  \/ \E i \in 1..Len(tasks) : HandleAccessSet(i)
  \/ \E i \in 1..Len(tasks) : HandleAccessRespond(i)
  \/ \E i \in 1..Len(tasks) : \E q \in QueryChoices(i) : HandleQueryGet(i, q)
  \/ \E i \in 1..Len(tasks) : CleanGet(i)
  \/ \E i \in 1..Len(tasks) : CleanSet(i)
  \/ \E i \in 1..Len(tasks) : StorageGetRejects(i)
  \/ \E i \in 1..Len(tasks) : StorageSetRejects(i)

SpecWorker == InitWorker /\ [][WorkerNext]_vars

\* domain queries over the stores a worker can wake up to
InitQuery == NoPageAt(StartTime) /\ store \in SeedStores

QueryNext ==
  \/ \E u \in {href, otherHref, badHref} : SendQuery(u)
  \/ \E i \in 1..Len(tasks) : \E q \in QueryChoices(i) : HandleQueryGet(i, q)
  \/ \E k \in StoreKeys : SendSave(k, <<"a", "b", "c">>)
  \/ \E i \in 1..Len(tasks) : HandleSaveGet(i)
  \/ \E i \in 1..Len(tasks) : HandleSaveSet(i)
  \/ \E i \in 1..Len(tasks) : HandleSaveRespond(i)

SpecQuery == InitQuery /\ [][QueryNext]_vars

\* the sweeps alone, at one clock value: the alarm and onInstalled fire while
\* nothing else touches the store
InitSweep == NoPageAt(StartTime) /\ store \in SeedStores

SweepNext ==
  \/ CleanStart
  \/ \E i \in 1..Len(tasks) : CleanGet(i)
  \/ \E i \in 1..Len(tasks) : CleanSet(i)

SpecSweep == InitSweep /\ [][SweepNext]_vars

----------------------------------------------------------------------------
(* The older service worker and restore script: part_004, part_003 *)

LegacySweepTask ==
  [type |-> "LEGACY_SWEEP", draftKey |-> <<"", "">>, draft |-> OldDraft(0),
   el |-> "", path |-> "alarm", calls |-> 0, pc |-> "sent",
   local |-> EmptyMap, hasChanges |-> FALSE, response |-> "",
   responses |-> 0, answer |-> <<>>]

\* the alarm or onInstalled of part_004 calls cleanExpiredDrafts
LegacyCleanStart ==
  /\ Len(tasks) < MaxTasks
  /\ tasks' = tasks \o <<LegacySweepTask>>
  /\ UNCHANGED <<now, connected, detached, value, checked, selectedOptions,
                 elementDataMap, attached, timers, timeoutId, store, phase,
                 burst, probe, allDrafts, restore, style, highlights>>

\* now - draft.timestamp > EXPIRY_DAYS * 24 * 60 * 60 * 1000
LegacyExpiredKeys(drafts, t) ==
  {k \in DOMAIN drafts : t - drafts[k].timestamp > EXPIRY_MILLISECONDS}

\* cleanExpiredDrafts of part_004 after its await of storage.get: it deletes
\* from its copy and calls storage.set
LegacyCleanGet(i) ==
  /\ i \in 1..Len(tasks)
  /\ tasks[i].type = "LEGACY_SWEEP" /\ tasks[i].pc = "sent"
  /\ tasks' = [tasks EXCEPT ![i] =
                 [@ EXCEPT !.pc = "read",
                           !.local = Without(store,
                                             LegacyExpiredKeys(store, now))]]
  /\ UNCHANGED <<now, connected, detached, value, checked, selectedOptions,
                 elementDataMap, attached, timers, timeoutId, store, phase,
                 burst, probe, allDrafts, restore, style, highlights>>

\* storage.set({ drafts }) of part_004 takes effect
LegacyCleanSet(i) ==
  /\ i \in 1..Len(tasks)
  /\ tasks[i].type = "LEGACY_SWEEP" /\ tasks[i].pc = "read"
  /\ store' = tasks[i].local
  /\ tasks' = [tasks EXCEPT ![i] = [@ EXCEPT !.pc = "done",
                                             !.local = EmptyMap]]
  /\ UNCHANGED <<now, connected, detached, value, checked, selectedOptions,
                 elementDataMap, attached, timers, timeoutId, phase, burst,
                 probe, allDrafts, restore, style, highlights>>

\* a page sends {type: 'GET_DRAFTS_BY_URL', url}
LegacyQuerySend(u) ==
  /\ Len(tasks) < MaxTasks
  /\ tasks' = tasks \o
       << [type |-> "GET_DRAFTS_BY_URL", url |-> u, draftKey |-> <<"", "">>,
           draft |-> OldDraft(0), el |-> "", path |-> "page", calls |-> 0,
           pc |-> "sent", local |-> EmptyMap, hasChanges |-> FALSE,
           response |-> "", responses |-> 0, answer |-> <<>>] >>
  /\ UNCHANGED <<now, connected, detached, value, checked, selectedOptions,
                 elementDataMap, attached, timers, timeoutId, store, phase,
                 burst, probe, allDrafts, restore, style, highlights>>

\* the filter callback throws: new URL(d.url) or new URL(request.url) on some
\* entry of a store m that is not empty
LegacyFilterThrows(m, u) ==
  \E k \in DOMAIN m : ~IsParsable(m[k].url) \/ ~IsParsable(u)

\* Object.values(drafts).filter(d => hostname of d.url = hostname of u)
LegacyMatches(m, u) ==
  { x \in EntriesOf(m) : URLHostname(x.draft.url) = URLHostname(u) }

\* the storage.get callback of part_004: it filters and answers, unless the
\* filter throws, and then sendResponse is never called
LegacyQueryGet(i, q) ==
  /\ i \in 1..Len(tasks)
  /\ tasks[i].type = "GET_DRAFTS_BY_URL" /\ tasks[i].pc = "sent"
  /\ IF LegacyFilterThrows(store, tasks[i].url)
     THEN /\ q = <<>>
          /\ tasks' = [tasks EXCEPT ![i] = [@ EXCEPT !.pc = "threw"]]
     ELSE /\ q \in Orderings(LegacyMatches(store, tasks[i].url))
          /\ tasks' = [tasks EXCEPT ![i] =
                         [@ EXCEPT !.pc = "done", !.response = "success",
                                   !.responses = @ + 1,
                                   !.answer = [n \in 1..Len(q) |->
                                                 q[n].draft]]]
  /\ UNCHANGED <<now, connected, detached, value, checked, selectedOptions,
                 elementDataMap, attached, timers, timeoutId, store, phase,
                 burst, probe, allDrafts, restore, style, highlights>>

\* ['bank', 'login', 'paypal', 'password'].some(d => hostname.includes(d))
LegacyUnsafeDomain(h) == h \in {"bank.example", "login.example.com"}

\* checkForDrafts of part_003 on a page of this site, from its await of
\* storage.get on: the prompt gets the drafts of the host, unless the filter
\* throws and the function rejects
LegacyCheckForDrafts(q) ==
  /\ Len(tasks) < MaxTasks
  /\ ~LegacyUnsafeDomain(hostname)
  /\ IF \E k \in DOMAIN store : ~IsParsable(store[k].url)
     THEN /\ q = <<>>
          /\ tasks' = tasks \o
               << [LegacySweepTask EXCEPT !.type = "CHECK_FOR_DRAFTS",
                                         !.path = "load", !.pc = "threw"] >>
     ELSE /\ q \in Orderings({ x \in EntriesOf(store) :
                                 URLHostname(x.draft.url) = hostname })
          /\ tasks' = tasks \o
               << [LegacySweepTask EXCEPT
                     !.type = "CHECK_FOR_DRAFTS", !.path = "load",
                     !.pc = IF Len(q) > 0 THEN "prompt" ELSE "done",
                     !.answer = [n \in 1..Len(q) |-> q[n].draft]] >>
  /\ UNCHANGED <<now, connected, detached, value, checked, selectedOptions,
                 elementDataMap, attached, timers, timeoutId, store, phase,
                 burst, probe, allDrafts, restore, style, highlights>>

\* the arrays the callback of task i can answer with
LegacyQueryChoices(i) ==
  IF tasks[i].type = "GET_DRAFTS_BY_URL"
     /\ ~LegacyFilterThrows(store, tasks[i].url)
  THEN Orderings(LegacyMatches(store, tasks[i].url))
  ELSE {<<>>}

\* the arrays checkForDrafts can hand to the prompt
LegacyCheckChoices ==
  IF \E k \in DOMAIN store : ~IsParsable(store[k].url)
  THEN {<<>>}
  ELSE Orderings({ x \in EntriesOf(store) :
                     URLHostname(x.draft.url) = hostname })

InitLegacyStore == NoPageAt(StartTime) /\ store \in SeedStores

LegacyStoreNext ==
  \/ Tick
  \/ LegacyCleanStart
  \/ \E i \in 1..Len(tasks) : LegacyCleanGet(i)
  \/ \E i \in 1..Len(tasks) : LegacyCleanSet(i)
  \/ \E u \in {href, otherHref} : LegacyQuerySend(u)
  \/ \E i \in 1..Len(tasks) :
       \E q \in LegacyQueryChoices(i) : LegacyQueryGet(i, q)
  \/ \E q \in LegacyCheckChoices : LegacyCheckForDrafts(q)

SpecLegacyStore == InitLegacyStore /\ [][LegacyStoreNext]_vars

----------------------------------------------------------------------------
(* shouldSaveElement applied to arbitrary elements *)

\* (el.isContentEditable, el.getAttribute('contenteditable')): not editable,
\* an editing host of its own, editable through an ancestor
Editability == { <<FALSE, "">>, <<TRUE, "true">>, <<TRUE, "">> }

\* the heights a textarea can be given: computed style height (0: not a
\* number) and offsetHeight
ProbeHeights == { <<0, 100>>, <<0, 200>>, <<100, 100>>, <<200, 200>> }

ProbeTextareas ==
  { [NoAttrs EXCEPT !.tagName = "TEXTAREA", !.type = "textarea",
                    !.name = n, !.placeholder = ph, !.id = i,
                    !.isContentEditable = ce[1],
                    !.contenteditableAttr = ce[2],
                    !.offsetParentNull = hid,
                    !.styleHeight = h[1], !.offsetHeight = h[2],
                    !.scrollHeight = h[2]] :
      n \in {"", "comment", "userPwd"},
      ph \in {"", "Your reply", "Search here"},
      i \in {"", "PASSWD"}, ce \in Editability, hid \in BOOLEAN,
      h \in ProbeHeights }

ProbeChoices ==
  { [NoAttrs EXCEPT !.tagName = "INPUT", !.type = t, !.typeAttr = t,
                    !.name = n, !.id = i, !.placeholder = ph,
                    !.isContentEditable = ce[1],
                    !.contenteditableAttr = ce[2],
                    !.offsetParentNull = hid,
                    !.valueAttr = "on", !.offsetHeight = 13] :
      t \in {"checkbox", "radio"},
      n \in {"", "agree", "search", "userPwd"},
      i \in {"", "editor", "PASSWD"}, ph \in {"", "comment"},
      ce \in Editability, hid \in BOOLEAN }

\* the elements handed to the classifier
Probes == ProbeTextareas \cup ProbeChoices

\* a classifier that measures the textarea at every call
shouldSaveElementCall_Remeasures ==
  /\ ~probe.classified
  /\ LET d == probe.el
         measures == ReachesTextareaRule(d)
         height == IF measures THEN MeasuredHeight(d) ELSE probe.height
     IN probe' = [probe EXCEPT !.classified = TRUE,
                               !.cachedData = @ \/ measures,
                               !.height = height,
                               !.result = shouldSaveElementAt(d, height)]
  /\ UNCHANGED <<now, connected, detached, value, checked, selectedOptions,
                 elementDataMap, attached, timers, timeoutId, tasks, store,
                 phase, burst, allDrafts, restore, style, highlights>>

\* a call shouldSaveElement(el): the textarea rule measures the element when
\* elementDataMap has no cachedData for it, and uses the cached height
shouldSaveElementCall ==
  /\ ~probe.classified
  /\ LET d == probe.el
         measures == ReachesTextareaRule(d) /\ ~probe.cachedData
         height == IF measures THEN MeasuredHeight(d) ELSE probe.height
     IN probe' = [probe EXCEPT !.classified = TRUE,
                               !.cachedData = @ \/ measures,
                               !.height = height,
                               !.result = shouldSaveElementAt(d, height)]
  /\ UNCHANGED <<now, connected, detached, value, checked, selectedOptions,
                 elementDataMap, attached, timers, timeoutId, tasks, store,
                 phase, burst, allDrafts, restore, style, highlights>>

\* the page or the user resizes the textarea; the last verdict is history
Resize(h) ==
  /\ probe.el.tagName = "TEXTAREA"
  /\ h \in ProbeHeights
  /\ <<probe.el.styleHeight, probe.el.offsetHeight>> # h
  /\ probe' = [probe EXCEPT !.el = [@ EXCEPT !.styleHeight = h[1],
                                             !.offsetHeight = h[2],
                                             !.scrollHeight = h[2]],
                            !.classified = FALSE]
  /\ UNCHANGED <<now, connected, detached, value, checked, selectedOptions,
                 elementDataMap, attached, timers, timeoutId, tasks, store,
                 phase, burst, allDrafts, restore, style, highlights>>

InitClassify ==
  /\ now = StartTime
  /\ connected = {}
  /\ detached = {}
  /\ value = [e \in Elems |-> <<>>]
  /\ checked = [e \in Elems |-> FALSE]
  /\ selectedOptions = [e \in Elems |-> {}]
  /\ elementDataMap = EmptyMap
  /\ attached = [e \in Elems |-> 0]
  /\ timers = {}
  /\ timeoutId = NoTimer
  /\ tasks = <<>>
  /\ phase = "live"
  /\ burst = NoBurst
  /\ store = EmptyMap
  /\ allDrafts = {}
  /\ restore = NoRestore
  /\ style = [e \in Elems |-> PageStyle(e)]
  /\ highlights = <<>>
  /\ probe \in { [NoProbe EXCEPT !.el = d] : d \in Probes }

ClassifyNext ==
  \/ shouldSaveElementCall
  \/ \E h \in ProbeHeights : Resize(h)

SpecClassify == InitClassify /\ [][ClassifyNext]_vars

----------------------------------------------------------------------------
(* Restoring a draft: the prompt of the page and the side panel *)

\* the pages a draft is restored into
RestorePages == SUBSET {"hid", "tb", "ta", "ed"}

\* what the earlier session had typed: text, text that reads like markup,
\* and the innerHTML of the editor: the serialization of what the parser
\* built from well-formed markup, from an element left open and from a
\* less-than sign
TypedTexts == { <<"a", "b", "c">>, <<"<b>", "a", "b", "c", "</b>">> }
TypedMarkups ==
  { SetInnerHTML(s) :
      s \in { <<"<b>", "a", "b", "c", "</b>">>, <<"<b>", "a", "b", "c">>,
              <<"a", "&lt;", "b">> } }

\* the page of the earlier session
SavedPage == {"ta", "ed"}

\* the draft saveDraft built at time t from element e holding v
SavedDraft(e, v, t) ==
  BuildDraft(e, [x \in Elems |-> IF x = e THEN v ELSE <<>>],
             [x \in Elems |-> FALSE], [x \in Elems |-> {}], t)

SavedTextDrafts ==
  { SavedDraft("ta", v, StartTime - 2) : v \in TypedTexts }

SavedRichDrafts ==
  { SavedDraft("ed", v, t) :
      v \in TypedMarkups, t \in {StartTime - 3, StartTime - 1} }

\* the stores the earlier session can have left
RestoreStores ==
  LET kt == generateDraftKey("ta", SavedPage)
      ke == generateDraftKey("ed", SavedPage)
  IN {EmptyMap}
     \cup { Put(EmptyMap, kt, d) : d \in SavedTextDrafts }
     \cup { Put(EmptyMap, ke, d) : d \in SavedRichDrafts }
     \cup { Put(Put(EmptyMap, kt, d), ke, r) :
              d \in SavedTextDrafts, r \in SavedRichDrafts }

\* isSensitivePage of checkForDrafts: the hostname includes a sensitive
\* domain
isSensitivePage(h) == h \in {"bank.example", "login.example.com"}

\* Array.from(document.querySelectorAll('textarea')).filter(visible)
visibleTextareas(conn) ==
  LET Visible(e) ==
        /\ e \in conn
        /\ ElemDef[e].tagName = "TEXTAREA"
        /\ ~ElemDef[e].offsetParentNull
        /\ ~ElemDef[e].displayNone
        /\ ElemDef[e].type # "password"
  IN SelectSeq(ElemOrder, Visible)

\* Array.from(querySelectorAll('[contenteditable="true"]')).filter(visible)
visibleEditables(conn) ==
  LET Visible(e) ==
        /\ e \in conn
        /\ ElemDef[e].contenteditableAttr = "true"
        /\ ~ElemDef[e].offsetParentNull
        /\ ~ElemDef[e].displayNone
  IN SelectSeq(ElemOrder, Visible)

\* visibleTextareas.find(el => el.offsetHeight > 150), "" for undefined
largeTextarea(conn) ==
  LET Large(e) == ElemDef[e].offsetHeight > 150
      found == SelectSeq(visibleTextareas(conn), Large)
  IN IF found = <<>> THEN "" ELSE Head(found)

\* findBestInputElement of the restore prompt, "" for null
findBestInputElement(conn) ==
  IF largeTextarea(conn) # "" THEN largeTextarea(conn)
  ELSE IF visibleEditables(conn) # <<>> THEN Head(visibleEditables(conn))
  ELSE IF visibleTextareas(conn) # <<>> THEN Head(visibleTextareas(conn))
  ELSE ""

\* the target restoreContentToPage of the side panel picks, "" for none
PanelTarget(conn, isRichText) ==
  IF isRichText /\ visibleEditables(conn) # <<>>
  THEN Head(visibleEditables(conn))
  ELSE IF ~isRichText /\ visibleTextareas(conn) # <<>>
  THEN (IF largeTextarea(conn) # "" THEN largeTextarea(conn)
        ELSE Head(visibleTextareas(conn)))
  ELSE IF visibleEditables(conn) # <<>> THEN Head(visibleEditables(conn))
  ELSE IF visibleTextareas(conn) # <<>> THEN Head(visibleTextareas(conn))
  ELSE ""

\* getPlainText(html): div.innerHTML = html; div.textContent
getPlainText(html) == TextContent(SetInnerHTML(html))

\* the property restoreDraft assigns and the string it assigns
PromptAssignment(draft, target) ==
  LET d == ElemDef[target] IN
  IF draft.isRichText /\ d.isContentEditable
  THEN [property |-> "innerHTML", text |-> draft.content]
  ELSE IF ~draft.isRichText /\ d.tagName = "TEXTAREA"
  THEN [property |-> "value", text |-> draft.content]
  ELSE IF d.tagName = "TEXTAREA"
  THEN [property |-> "value", text |-> getPlainText(draft.content)]
  ELSE [property |-> "textContent", text |-> getPlainText(draft.content)]

\* the property restoreContentToPage assigns and the string it assigns
PanelAssignment(draft, target) ==
  LET d == ElemDef[target] IN
  IF d.isContentEditable
  THEN [property |-> "innerHTML", text |-> draft.content]
  ELSE IF draft.isRichText
  THEN [property |-> "value", text |-> getPlainText(draft.content)]
  ELSE [property |-> "value", text |-> draft.content]

\* an assignment to innerHTML that stores the string as text
Assigned_AsText(a) ==
  IF a.property = "value" THEN a.text ELSE SetTextContent(a.text)

\* what the target holds after the assignment a: the value of a textarea,
\* the innerHTML of an editing host
Assigned(a) ==
  CASE a.property = "innerHTML" -> SetInnerHTML(a.text)
    [] a.property = "textContent" -> SetTextContent(a.text)
    [] OTHER -> a.text

\* the 'input' and 'change' events a restore dispatches on the target reach
\* the listeners of the content script
RestoreListeners(e) ==
  IF shouldSaveElement(e, elementDataMap)
  THEN debounce(InputListeners(e), e, now)
  ELSE [timers |-> timers, timeoutId |-> timeoutId]

\* sendMessage({type: 'UPDATE_DRAFT_ACCESS', draftKey}) of a restore
AccessTask(k, p) ==
  [type |-> "UPDATE_DRAFT_ACCESS", draftKey |-> k, draft |-> OldDraft(0),
   el |-> "", path |-> p, calls |-> 0, pc |-> "sent", local |-> EmptyMap,
   hasChanges |-> FALSE, response |-> "", responses |-> 0, answer |-> <<>>]

\* the restore assigns a to the target, dispatches input and change and
\* focuses the target
ApplyTo(target, a) ==
  /\ value' = [value EXCEPT ![target] = Assigned(a)]
  /\ timers' = RestoreListeners(target).timers
  /\ timeoutId' = RestoreListeners(target).timeoutId
  /\ elementDataMap' = CacheAfter(target, elementDataMap)
  /\ burst' = IF shouldSaveElement(target, elementDataMap)
              THEN BurstAfter(burst, target, 2 + attached[target], now)
              ELSE burst

\* highlightElement(element) of the restore prompt: both styles are saved,
\* set, and handed to a 2000 ms timer
highlightElement(e) ==
  /\ style' = [style EXCEPT ![e] =
                 [boxShadow |-> "0 0 0 3px rgba(52, 152, 219, 0.5)",
                  transition |-> "box-shadow 0.3s ease"]]
  /\ highlights' = Append(highlights,
                      [el |-> e, boxShadow |-> style[e].boxShadow,
                       transition |-> style[e].transition,
                       restoresTransition |-> TRUE])

\* the visual feedback of restoreContentToPage: only the box shadow is saved
\* and handed to the timer
PanelHighlight(e) ==
  /\ style' = [style EXCEPT ![e] =
                 [boxShadow |-> "0 0 0 4px rgba(39, 174, 96, 0.5)",
                  transition |-> "box-shadow 0.3s"]]
  /\ highlights' = Append(highlights,
                      [el |-> e, boxShadow |-> style[e].boxShadow,
                       transition |-> "", restoresTransition |-> FALSE])

\* the oldest highlight timer fires (all have the same delay): the saved
\* styles are assigned back
HighlightTimeout ==
  /\ highlights # <<>>
  /\ LET h == Head(highlights) IN
     style' = [style EXCEPT ![h.el] =
                 [boxShadow |-> h.boxShadow,
                  transition |-> IF h.restoresTransition THEN h.transition
                                 ELSE style[h.el].transition]]
  /\ highlights' = Tail(highlights)
  /\ UNCHANGED <<now, connected, detached, value, checked, selectedOptions,
                 elementDataMap, attached, timers, timeoutId, tasks, store,
                 phase, burst, probe, allDrafts, restore>>

\* checkForDrafts gets a non-empty answer and showRestorePrompt offers the
\* newest draft
ShowRestorePrompt(q) ==
  /\ restore.pc = "idle"
  /\ ~isSensitivePage(hostname)
  /\ q \in QueryAnswers(store, href)
  /\ Len(q) > 0
  /\ restore' = [NoRestore EXCEPT !.path = "prompt", !.pc = "offered",
                                  !.key = q[1].key, !.draft = q[1].draft]
  /\ UNCHANGED <<now, connected, detached, value, checked, selectedOptions,
                 elementDataMap, attached, timers, timeoutId, tasks, store,
                 phase, burst, probe, allDrafts, style, highlights>>

\* the user dismisses the prompt
DismissPrompt ==
  /\ restore.path = "prompt" /\ restore.pc = "offered"
  /\ restore' = [restore EXCEPT !.pc = "dismissed"]
  /\ UNCHANGED <<now, connected, detached, value, checked, selectedOptions,
                 elementDataMap, attached, timers, timeoutId, tasks, store,
                 phase, burst, probe, allDrafts, style, highlights>>

\* the user clicks restore: restoreDraft(latestDraft)
RestoreDraft ==
  /\ restore.path = "prompt" /\ restore.pc = "offered"
  /\ LET target == findBestInputElement(connected) IN
     IF target = ""
     THEN /\ restore' = [restore EXCEPT !.pc = "done",
                                        !.shown = <<"no target">>]
          /\ UNCHANGED <<value, timers, timeoutId, elementDataMap, burst,
                         tasks, style, highlights>>
     ELSE LET a == PromptAssignment(restore.draft, target) IN
          /\ ApplyTo(target, a)
          /\ highlightElement(target)
          /\ tasks' = Append(tasks, AccessTask(restore.key, "restore"))
          /\ Len(tasks') <= MaxTasks
          /\ restore' = [restore EXCEPT
                           !.pc = "done", !.target = target,
                           !.property = a.property, !.assigned = a.text,
                           !.events = <<"input", "change", "focus">>,
                           !.task = Len(tasks')]
  /\ UNCHANGED <<now, connected, detached, checked, selectedOptions, attached,
                 store, phase, probe, allDrafts>>

\* loadDrafts of the side panel: storage.get, then the list is replaced
LoadDrafts ==
  /\ allDrafts # EntriesOf(store)
  /\ allDrafts' = EntriesOf(store)
  /\ UNCHANGED <<now, connected, detached, value, checked, selectedOptions,
                 elementDataMap, attached, timers, timeoutId, tasks, store,
                 phase, burst, probe, restore, style, highlights>>

\* handleRestore(x) of the side panel up to its await of sendMessage:
\* restoreContentToPage runs in the page, then UPDATE_DRAFT_ACCESS is sent
HandleRestore(x) ==
  /\ x \in allDrafts
  /\ restore.pc \in {"idle", "done", "dismissed"}
  /\ LET target == PanelTarget(connected, x.draft.isRichText) IN
     /\ tasks' = Append(tasks, AccessTask(x.key, "panel"))
     /\ IF target = ""
        THEN /\ restore' = [NoRestore EXCEPT
                              !.path = "panel", !.pc = "awaiting",
                              !.key = x.key, !.draft = x.draft,
                              !.shown = <<"no target">>,
                              !.task = Len(tasks')]
             /\ UNCHANGED <<value, timers, timeoutId, elementDataMap, burst,
                            style, highlights>>
        ELSE LET a == PanelAssignment(x.draft, target) IN
             /\ ApplyTo(target, a)
             /\ PanelHighlight(target)
             /\ restore' = [NoRestore EXCEPT
                              !.path = "panel", !.pc = "awaiting",
                              !.key = x.key, !.draft = x.draft,
                              !.target = target, !.property = a.property,
                              !.assigned = a.text,
                              !.events = <<"input", "change", "focus">>,
                              !.task = Len(tasks')]
     /\ Len(tasks') <= MaxTasks
  /\ UNCHANGED <<now, connected, detached, checked, selectedOptions, attached,
                 store, phase, probe, allDrafts>>

\* handleRestore after the worker answered: showSuccess
HandleRestoreDone ==
  /\ restore.path = "panel" /\ restore.pc = "awaiting"
  /\ tasks[restore.task].responses > 0
  /\ restore' = [restore EXCEPT !.pc = "done",
                                !.shown = Append(@, "success")]
  /\ UNCHANGED <<now, connected, detached, value, checked, selectedOptions,
                 elementDataMap, attached, timers, timeoutId, tasks, store,
                 phase, burst, probe, allDrafts, style, highlights>>

InitRestore ==
  /\ now = StartTime
  /\ connected \in RestorePages
  /\ detached = {}
  /\ value = [e \in Elems |-> <<>>]
  /\ checked = [e \in Elems |-> FALSE]
  /\ selectedOptions = [e \in Elems |-> {}]
  /\ elementDataMap = EmptyMap
  /\ attached = [e \in Elems |-> 0]
  /\ timers = {}
  /\ timeoutId = NoTimer
  /\ tasks = <<>>
  /\ phase = "live"
  /\ burst = NoBurst
  /\ probe = NoProbe
  /\ allDrafts = {}
  /\ restore = NoRestore
  /\ style = [e \in Elems |-> PageStyle(e)]
  /\ highlights = <<>>
  /\ store \in RestoreStores

RestoreNext ==
  \/ \E q \in QueryAnswers(store, href) : ShowRestorePrompt(q)
  \/ DismissPrompt
  \/ RestoreDraft
  \/ LoadDrafts
  \/ \E x \in allDrafts : HandleRestore(x)
  \/ HandleRestoreDone
  \/ HighlightTimeout
  \/ \E i \in 1..Len(tasks) :
       HandleAccessGet(i) \/ HandleAccessSet(i) \/ HandleAccessRespond(i)

SpecRestore == InitRestore /\ [][RestoreNext]_vars

\* the draft saveDraft built from the ticked checkbox of an earlier page of
\* the host, alone or after a draft of its textarea
ChoiceStores ==
  LET kc == generateDraftKey("cb", {"cb", "ta"})
      kt == generateDraftKey("ta", {"cb", "ta"})
      ticked == BuildDraft("cb", [x \in Elems |-> <<>>],
                           [x \in Elems |-> x = "cb"],
                           [x \in Elems |-> {}], StartTime - 1)
  IN { Put(EmptyMap, kc, ticked) }
     \cup { Put(Put(EmptyMap, kc, ticked), kt, d) : d \in SavedTextDrafts }

InitChoiceRestore ==
  /\ now = StartTime
  /\ connected \in RestorePages
  /\ detached = {}
  /\ value = [e \in Elems |-> <<>>]
  /\ checked = [e \in Elems |-> FALSE]
  /\ selectedOptions = [e \in Elems |-> {}]
  /\ elementDataMap = EmptyMap
  /\ attached = [e \in Elems |-> 0]
  /\ timers = {}
  /\ timeoutId = NoTimer
  /\ tasks = <<>>
  /\ phase = "live"
  /\ burst = NoBurst
  /\ probe = NoProbe
  /\ allDrafts = {}
  /\ restore = NoRestore
  /\ style = [e \in Elems |-> PageStyle(e)]
  /\ highlights = <<>>
  /\ store \in ChoiceStores

SpecChoiceRestore == InitChoiceRestore /\ [][RestoreNext]_vars

----------------------------------------------------------------------------
(* Restoring a draft with the prompt of part_003 *)

\* document.querySelector('textarea, [contenteditable]'), "" for null
LegacyTarget(conn) ==
  LET Matches(e) ==
        /\ e \in conn
        /\ \/ ElemDef[e].tagName = "TEXTAREA"
           \/ ElemDef[e].contenteditableAttr # ""
      found == SelectSeq(ElemOrder, Matches)
  IN IF found = <<>> THEN "" ELSE Head(found)

\* the property the RESTORE_DRAFT listener assigns and the string it assigns
LegacyAssignment(draft) ==
  IF draft.isRichText
  THEN [property |-> "innerHTML", text |-> draft.content]
  ELSE [property |-> "value", text |-> draft.content]

\* what the target holds after the assignment a: innerHTML of a textarea is
\* parsed as text with character references, and value is no property of an
\* editing host
LegacyAssigned(a, target, old) ==
  LET d == ElemDef[target] IN
  IF d.tagName = "TEXTAREA"
  THEN (IF a.property = "innerHTML"
        THEN [i \in 1..Len(a.text) |-> DecodeEntity(a.text[i])]
        ELSE a.text)
  ELSE (IF a.property = "innerHTML" THEN SetInnerHTML(a.text) ELSE old)

\* checkForDrafts of part_003 finds drafts of the host and showRestorePrompt
\* offers them; the click handler takes the newest
LegacyShowRestorePrompt(q) ==
  /\ restore.pc = "idle"
  /\ ~LegacyUnsafeDomain(hostname)
  /\ \A k \in DOMAIN store : IsParsable(store[k].url)
  /\ q \in SortedOrderings({ x \in EntriesOf(store) :
                               URLHostname(x.draft.url) = hostname })
  /\ Len(q) > 0
  /\ restore' = [NoRestore EXCEPT !.path = "legacy", !.pc = "offered",
                                  !.draft = q[1].draft]
  /\ UNCHANGED <<now, connected, detached, value, checked, selectedOptions,
                 elementDataMap, attached, timers, timeoutId, tasks, store,
                 phase, burst, probe, allDrafts, style, highlights>>

\* the dismiss button: prompt.remove()
LegacyDismissPrompt ==
  /\ restore.path = "legacy" /\ restore.pc = "offered"
  /\ restore' = [restore EXCEPT !.pc = "dismissed"]
  /\ UNCHANGED <<now, connected, detached, value, checked, selectedOptions,
                 elementDataMap, attached, timers, timeoutId, tasks, store,
                 phase, burst, probe, allDrafts, style, highlights>>

\* the restore button posts RESTORE_DRAFT and the message listener assigns
\* the content to the first textarea or contenteditable and focuses it
LegacyRestoreDraft ==
  /\ restore.path = "legacy" /\ restore.pc = "offered"
  /\ LET target == LegacyTarget(connected)
         a == LegacyAssignment(restore.draft)
     IN IF target = ""
        THEN /\ restore' = [restore EXCEPT !.pc = "done"]
             /\ value' = value
        ELSE /\ value' = [value EXCEPT
                            ![target] = LegacyAssigned(a, target, @)]
             /\ restore' = [restore EXCEPT
                              !.pc = "done", !.target = target,
                              !.property = a.property, !.assigned = a.text,
                              !.events = <<"focus">>]
  /\ UNCHANGED <<now, connected, detached, checked, selectedOptions,
                 elementDataMap, attached, timers, timeoutId, tasks, store,
                 phase, burst, probe, allDrafts, style, highlights>>

LegacyRestoreNext ==
  \/ \E q \in Orderings(EntriesOf(store)) : LegacyShowRestorePrompt(q)
  \/ LegacyDismissPrompt
  \/ LegacyRestoreDraft

SpecLegacyRestore == InitRestore /\ [][LegacyRestoreNext]_vars

----------------------------------------------------------------------------
(* Deleting in the side panel *)

\* a run of handleDelete or handleClearAll; pc "prompt" is the open
\* confirmation dialog
PanelTask(type, k) ==
  [type |-> type, draftKey |-> k, draft |-> OldDraft(0), el |-> "",
   path |-> "panel", calls |-> 0, pc |-> "prompt", local |-> EmptyMap,
   hasChanges |-> FALSE, response |-> "", responses |-> 0, answer |-> <<>>]

PanelTypes == {"DELETE", "CLEAR_ALL"}

\* the delete button of a listed draft: handleDelete(draft.key, draft.title)
\* shows the confirmation dialog
DeleteClick(x) ==
  /\ x \in allDrafts
  /\ Len(tasks) < MaxTasks
  /\ tasks' = Append(tasks, PanelTask("DELETE", x.key))
  /\ UNCHANGED <<now, connected, detached, value, checked, selectedOptions,
                 elementDataMap, attached, timers, timeoutId, store, phase,
                 burst, probe, allDrafts, restore, style, highlights>>

\* the clear-all button: handleClearAll shows an error when no draft is
\* loaded, the confirmation dialog otherwise
ClearAllClick ==
  /\ Len(tasks) < MaxTasks
  /\ tasks' = Append(tasks,
                IF allDrafts = {}
                THEN [PanelTask("CLEAR_ALL", <<"", "">>) EXCEPT
                        !.pc = "done", !.response = "nothing to clear"]
                ELSE PanelTask("CLEAR_ALL", <<"", "">>))
  /\ UNCHANGED <<now, connected, detached, value, checked, selectedOptions,
                 elementDataMap, attached, timers, timeoutId, store, phase,
                 burst, probe, allDrafts, restore, style, highlights>>

\* showConfirmDialog resolves false: the handler returns
ConfirmCancel(i) ==
  /\ i \in 1..Len(tasks)
  /\ tasks[i].type \in PanelTypes /\ tasks[i].pc = "prompt"
  /\ tasks' = [tasks EXCEPT ![i] = [@ EXCEPT !.pc = "cancelled"]]
  /\ UNCHANGED <<now, connected, detached, value, checked, selectedOptions,
                 elementDataMap, attached, timers, timeoutId, store, phase,
                 burst, probe, allDrafts, restore, style, highlights>>

\* showConfirmDialog resolves true: handleDelete issues storage.get,
\* handleClearAll issues storage.set({ drafts: {} })
ConfirmAccept(i) ==
  /\ i \in 1..Len(tasks)
  /\ tasks[i].type \in PanelTypes /\ tasks[i].pc = "prompt"
  /\ tasks' = [tasks EXCEPT ![i] =
                 [@ EXCEPT !.pc = IF tasks[i].type = "DELETE" THEN "sent"
                                  ELSE "read"]]
  /\ UNCHANGED <<now, connected, detached, value, checked, selectedOptions,
                 elementDataMap, attached, timers, timeoutId, store, phase,
                 burst, probe, allDrafts, restore, style, highlights>>

\* a delete that removes every draft of the chosen draft's page
HandleDeleteGet_WholePage(i) ==
  /\ i \in 1..Len(tasks)
  /\ tasks[i].type = "DELETE" /\ tasks[i].pc = "sent"
  /\ tasks' = [tasks EXCEPT ![i] =
                 [@ EXCEPT !.pc = "read",
                           !.local = Without(store,
                                       { k \in DOMAIN store :
                                           k[1] = tasks[i].draftKey[1] })]]
  /\ UNCHANGED <<now, connected, detached, value, checked, selectedOptions,
                 elementDataMap, attached, timers, timeoutId, store, phase,
                 burst, probe, allDrafts, restore, style, highlights>>

\* handleDelete after its await of storage.get: delete drafts[draftKey],
\* then storage.set is issued
HandleDeleteGet(i) ==
  /\ i \in 1..Len(tasks)
  /\ tasks[i].type = "DELETE" /\ tasks[i].pc = "sent"
  /\ tasks' = [tasks EXCEPT ![i] =
                 [@ EXCEPT !.pc = "read",
                           !.local = Without(store, {tasks[i].draftKey})]]
  /\ UNCHANGED <<now, connected, detached, value, checked, selectedOptions,
                 elementDataMap, attached, timers, timeoutId, store, phase,
                 burst, probe, allDrafts, restore, style, highlights>>

\* storage.set of handleDelete or handleClearAll takes effect
PanelSet(i) ==
  /\ i \in 1..Len(tasks)
  /\ tasks[i].type \in PanelTypes /\ tasks[i].pc = "read"
  /\ store' = tasks[i].local
  /\ tasks' = [tasks EXCEPT ![i] = [@ EXCEPT !.pc = "written",
                                             !.local = EmptyMap]]
  /\ UNCHANGED <<now, connected, detached, value, checked, selectedOptions,
                 elementDataMap, attached, timers, timeoutId, phase, burst,
                 probe, allDrafts, restore, style, highlights>>

\* showSuccess, then await loadDrafts()
PanelDone(i) ==
  /\ i \in 1..Len(tasks)
  /\ tasks[i].type \in PanelTypes /\ tasks[i].pc = "written"
  /\ tasks' = [tasks EXCEPT ![i] = [@ EXCEPT !.pc = "done",
                                             !.response = "success"]]
  /\ allDrafts' = EntriesOf(store)
  /\ UNCHANGED <<now, connected, detached, value, checked, selectedOptions,
                 elementDataMap, attached, timers, timeoutId, store, phase,
                 burst, probe, restore, style, highlights>>

InitPanel == NoPageAt(StartTime) /\ store \in RestoreStores

PanelNext ==
  \/ LoadDrafts
  \/ \E x \in allDrafts : DeleteClick(x)
  \/ ClearAllClick
  \/ \E i \in 1..Len(tasks) : ConfirmCancel(i)
  \/ \E i \in 1..Len(tasks) : ConfirmAccept(i)
  \/ \E i \in 1..Len(tasks) : HandleDeleteGet(i)
  \/ \E i \in 1..Len(tasks) : PanelSet(i)
  \/ \E i \in 1..Len(tasks) : PanelDone(i)
  \/ \E k \in StoreKeys : SendSave(k, <<"a", "b", "c", "d">>)
  \/ \E i \in 1..Len(tasks) : HandleSaveGet(i)
  \/ \E i \in 1..Len(tasks) : HandleSaveSet(i)
  \/ \E i \in 1..Len(tasks) : HandleSaveRespond(i)

SpecPanel == InitPanel /\ [][PanelNext]_vars

----------------------------------------------------------------------------
(* Properties of the debounced scheduler *)

\* the step edits element a: an 'input' event on a
Edited(a) ==
  \/ value'[a] # value[a]
  \/ checked'[a] # checked[a]
  \/ selectedOptions'[a] # selectedOptions[a]

TimersOf(ts, e) == {t \in ts : t.el = e}

\* the content saveDraft would send for e now
ContentOf(e) ==
  extractElementValue(e, value, checked, selectedOptions).content

\* e is draft-worthy and its value passes the content check of saveDraft
Qualifies(e) ==
  /\ shouldSaveElement(e, elementDataMap)
  /\ SaveDraftSends(e, connected, value, checked, selectedOptions)

\* C1: the debounce timer is per element: an input event on element A leaves
\* the pending timer of every other element B in place, with its deadline, so
\* B's save still fires 3000 ms after B's own last edit.
C1_PerElementTimer ==
  [][\A a \in TextElems :
       value'[a] # value[a]
       => \A t \in timers : t.el # a => t \in timers']_vars

\* C4: when the timer of an element fires after two or more debouncedSave
\* calls for that element within the window, the firing comes 3000 ms after
\* the last call, sends exactly one SAVE_DRAFT carrying the element's current
\* value (the value of the last edit), and leaves no further timer of the
\* burst behind.
C4_BurstOneWrite ==
  [][\A t \in timers :
       ( /\ timers' = timers \ {t}
         /\ burst.el = t.el /\ burst.count >= 2
         /\ SaveDraftSends(t.el, connected, value, checked, selectedOptions) )
       => /\ now >= burst.last + DebounceDelay
          /\ Len(tasks') = Len(tasks) + 1
          /\ tasks'[Len(tasks')].el = t.el
          /\ tasks'[Len(tasks')].draft.content = ContentOf(t.el)
          /\ TimersOf(timers', t.el) = {}]_vars

\* a timer fired after a burst of two or more calls and its message was sent
C4_Witness ==
  \E i \in 1..Len(tasks) : tasks[i].path = "timer" /\ tasks[i].calls >= 2

\* C5: at any time there is at most one pending timer per element, and an
\* input event on a draft-worthy element leaves exactly one timer for it,
\* due a full 3000 ms later.
C5_OneTimerPerElement ==
  [][ /\ \A e \in Elems : Cardinality(TimersOf(timers', e)) <= 1
      /\ \A a \in Elems :
           (Edited(a) /\ shouldSaveElement(a, elementDataMap))
           => TimersOf(timers', a)
                = {[el |-> a, deadline |-> now + DebounceDelay]} ]_vars

\* a second call for an element arrived after time had passed, and one timer
\* is pending for it
C5_Witness ==
  \E t \in timers :
    /\ burst.el = t.el /\ burst.count = 2
    /\ now > StartTime /\ t.deadline = now + DebounceDelay
    /\ Cardinality(timers) = 1

\* everything the page has started has run to its end
Settled ==
  /\ timers = {}
  /\ \A i \in 1..Len(tasks) : tasks[i].pc = "done"

\* C6: once the timers have fired and every message is answered, so that the
\* last edit of each element lies at least 3000 ms back, the store has the
\* entry of every connected draft-worthy plain-text element whose value has at
\* least 3 characters: keyed hostname_identifier, with the element's text and
\* a plain-text kind.
C6_SavedAfterQuiet ==
  (phase # "unloading" /\ Settled) =>
    \A e \in connected :
      (Qualifies(e) /\ ElemDef[e].tagName = "TEXTAREA")
      => LET k == generateDraftKey(e, connected) IN
         /\ k \in DOMAIN store
         /\ store[k].content = value[e]
         /\ store[k].elementType = "textarea"
         /\ ~store[k].isRichText

\* C8: while the page is hidden, every draft-worthy element with a non-empty
\* value has had its current value written by a flush.
C8_HiddenFlushes ==
  phase = "hidden" =>
    \A e \in connected :
      Qualifies(e)
      => \E i \in 1..Len(tasks) :
           tasks[i].el = e /\ tasks[i].draft.content = ContentOf(e)

ChoiceKinds == {"input-checkbox", "input-radio", "select"}

\* the length saveDraft measures, taken from a stored draft
DraftTextLength(d) ==
  StrLength(Trim(IF d.isRichText THEN TextContent(d.content) ELSE d.content))

\* C9: every stored entry, and every draft on its way to the store, of a text
\* kind has a trimmed (rich text: tag-stripped) length of at least 3.
C9_MinLength ==
  /\ \A k \in DOMAIN store :
       store[k].elementType \notin ChoiceKinds
       => DraftTextLength(store[k]) >= MinTextLength
  /\ \A i \in 1..Len(tasks) :
       (tasks[i].type = "SAVE_DRAFT"
        /\ tasks[i].draft.elementType \notin ChoiceKinds)
       => DraftTextLength(tasks[i].draft) >= MinTextLength

\* the teardown flush passed over a textarea holding " hi" and the entry of
\* the editor next to it reached the store
C9_Witness ==
  /\ phase = "unloading"
  /\ "ta" \in connected /\ value["ta"] = <<" ", "h", "i">>
  /\ generateDraftKey("ta", connected) \notin DOMAIN store
  /\ generateDraftKey("ed", connected) \in DOMAIN store

\* the step changes the state of the choice element e
ChoiceChanged(e) ==
  /\ e \in connected /\ e \notin TextElems
  /\ shouldSaveElement(e, elementDataMap)
  /\ checked'[e] # checked[e] \/ selectedOptions'[e] # selectedOptions[e]

\* the messages the step appended to the task list
Appended == SubSeq(tasks', Len(tasks) + 1, Len(tasks'))

\* the step sent at least one SAVE_DRAFT, all of them for e in its new state
SavedNow(e) ==
  /\ Len(tasks') > Len(tasks)
  /\ \A i \in 1..Len(Appended) :
       /\ Appended[i].el = e
       /\ Appended[i].draft.content =
            extractElementValue(e, value', checked', selectedOptions').content

----------------------------------------------------------------------------
(* Properties of the store *)

IsAnsweredSave(t) == t.type = "SAVE_DRAFT" /\ t.response = "success"

\* C2: when a SAVE_DRAFT is answered with success, the store holds its entry
\* and the entry of every SAVE_DRAFT for another key answered before, in
\* whatever order the storage gets and sets of the two were interleaved.
C2_AtomicUpserts ==
  [][\A j \in 1..Len(tasks) :
       (tasks[j].type = "SAVE_DRAFT" /\ tasks[j].pc = "written"
        /\ tasks'[j].pc = "done")
       => \A i \in 1..Len(tasks) :
            (IsAnsweredSave(tasks[i])
             /\ tasks[i].draftKey # tasks[j].draftKey)
            => /\ tasks[i].draftKey \in DOMAIN store'
               /\ tasks[j].draftKey \in DOMAIN store']_vars

\* C3: the write-back of a sweep leaves in the store every non-expired draft
\* whose SAVE_DRAFT has been answered with success.
C3_SweepKeepsSaved ==
  [][\A j \in 1..Len(tasks) :
       (tasks[j].type = "SWEEP" /\ tasks[j].pc = "read"
        /\ tasks'[j].pc = "done")
       => \A i \in 1..Len(tasks) :
            (IsAnsweredSave(tasks[i])
             /\ tasks[i].draftKey \in DOMAIN store
             /\ tasks[i].draftKey \notin ExpiredKeys(store, now))
            => /\ tasks[i].draftKey \in DOMAIN store'
               /\ store'[tasks[i].draftKey] = store[tasks[i].draftKey]]_vars

----------------------------------------------------------------------------
(* Properties of the teardown flush *)

\* C7: the beforeunload handler issues, in its own step and without arming
\* the debounce timer, one write for every element that the classifier
\* accepts and whose value is non-empty.
C7_UnloadFlushesNow ==
  [][(phase # "unloading" /\ phase' = "unloading")
     => /\ timers' = timers
        /\ \A e \in connected :
             (LegacyShouldSave(e) /\ LegacyNonEmpty(e))
             => \E i \in (Len(tasks) + 1)..Len(tasks') :
                  tasks'[i].el = e /\ tasks'[i].draft.content = value[e]]_vars

----------------------------------------------------------------------------
(* Properties of the expiry sweep *)

\* the entries a sweep at time t has to keep: last accessed, or else created,
\* no more than 30 days before t
FreshKeys(m, t) ==
  { k \in DOMAIN m :
      ~(t - (IF m[k].lastAccessed # 0 THEN m[k].lastAccessed
             ELSE m[k].timestamp) > EXPIRY_MILLISECONDS) }

\* C11: the map a sweep is about to write back holds exactly the entries it
\* read that were last accessed (created, when they have no access time) no
\* more than 30 days ago, each as it was read.
C11_SweepRemovesExactlyExpired ==
  [][\A j \in 1..Len(tasks) :
       (tasks[j].type \in {"SWEEP", "LEGACY_SWEEP"}
        /\ tasks[j].pc = "sent" /\ tasks'[j].pc = "read")
       => /\ DOMAIN tasks'[j].local = FreshKeys(store, now)
          /\ \A k \in FreshKeys(store, now) :
               tasks'[j].local[k] = store[k]]_vars

----------------------------------------------------------------------------
(* Properties of the draft key *)

\* the task has computed the key it writes under
HasKey(t) == t.type \in {"SAVE_DRAFT", "LEGACY_SAVE"} /\ t.draftKey # <<"", "">>

\* C12: all flushes of one element write under one key, so the element has
\* one entry in the store however often it was flushed.
C12_OneKeyPerElement ==
  \A i, j \in 1..Len(tasks) :
    (HasKey(tasks[i]) /\ HasKey(tasks[j]) /\ tasks[i].el = tasks[j].el)
    => tasks[i].draftKey = tasks[j].draftKey

\* C13: SAVE_DRAFT messages of two different elements of the page never
\* carry the same key, so neither write can replace the other's entry.
C13_DistinctElementsDistinctKeys ==
  \A i, j \in 1..Len(tasks) :
    (tasks[i].type = "SAVE_DRAFT" /\ tasks[j].type = "SAVE_DRAFT"
     /\ tasks[i].el # "" /\ tasks[j].el # ""
     /\ tasks[i].el # tasks[j].el)
    => tasks[i].draftKey # tasks[j].draftKey

----------------------------------------------------------------------------
(* Properties of the access time *)

\* C14: every stored entry that has a lastAccessed value was last accessed no
\* earlier than it was created.
C14_AccessNotBeforeCreation ==
  \A k \in DOMAIN store :
    store[k].lastAccessed # 0 => store[k].lastAccessed >= store[k].timestamp

\* an entry that was saved and later stamped by an answered UPDATE_DRAFT_ACCESS
C14_Witness ==
  \E i, j \in 1..Len(tasks) :
    /\ IsAnsweredSave(tasks[i])
    /\ tasks[j].type = "UPDATE_DRAFT_ACCESS" /\ tasks[j].response = "success"
    /\ tasks[i].draftKey = tasks[j].draftKey
    /\ tasks[i].draftKey \in DOMAIN store
    /\ store[tasks[i].draftKey].lastAccessed
         > store[tasks[i].draftKey].timestamp

\* C15: when the UPDATE_DRAFT_ACCESS of a restore of draft K is answered with
\* success, store[K].lastAccessed is the time the handler stamped.
C15_RestoreStampsAccess ==
  [][\A j \in 1..Len(tasks) :
       (tasks[j].type = "UPDATE_DRAFT_ACCESS" /\ tasks[j].pc = "written"
        /\ tasks'[j].pc = "done" /\ tasks'[j].response = "success")
       => /\ tasks[j].draftKey \in DOMAIN store'
          /\ store'[tasks[j].draftKey].lastAccessed
               = tasks[j].draft.lastAccessed]_vars

----------------------------------------------------------------------------
(* Properties of the message handlers *)

Finished(t) == t.pc \in {"done", "failed"}

\* C16: a SAVE_DRAFT, GET_DRAFTS_BY_DOMAIN or UPDATE_DRAFT_ACCESS request has
\* no response while its handler runs and exactly one once the handler has
\* finished, whether storage answered or rejected.
C16_ExactlyOneResponse ==
  \A i \in 1..Len(tasks) :
    tasks[i].type \in MessageTypes
    => tasks[i].responses = (IF Finished(tasks[i]) THEN 1 ELSE 0)

\* one request answered after a storage rejection, another answered success
C16_Witness ==
  \E i, j \in 1..Len(tasks) :
    /\ tasks[i].type \in MessageTypes /\ tasks[i].pc = "failed"
    /\ tasks[j].type \in MessageTypes /\ tasks[j].pc = "done"
    /\ tasks[j].response = "success"

\* C17: a storage rejection ends the handler in its catch block: the store
\* is left as it was, a message handler answers success=false with an error,
\* no exception escapes, and the handler takes no further step.
C17_FailureCaught ==
  [][/\ \A j \in 1..Len(tasks) :
          (tasks[j].pc # "failed" /\ tasks'[j].pc = "failed")
          => /\ store' = store
             /\ Len(tasks') = Len(tasks)
             /\ tasks[j].type \in MessageTypes
                => tasks'[j].response = "error" /\ tasks'[j].responses = 1
     /\ \A j \in 1..Len(tasks) :
          tasks[j].pc = "failed" => tasks'[j] = tasks[j]
     /\ \A j \in 1..Len(tasks') : tasks'[j].pc # "threw"]_vars

\* a sweep and a message handler both ended by a rejected storage call
C17_Witness ==
  \E i, j \in 1..Len(tasks) :
    /\ tasks[i].type = "SWEEP" /\ tasks[i].pc = "failed"
    /\ tasks[j].type \in MessageTypes /\ tasks[j].pc = "failed"
    /\ store # EmptyMap

----------------------------------------------------------------------------
(* Properties of the domain query *)

QueryTypes == {"GET_DRAFTS_BY_DOMAIN", "GET_DRAFTS_BY_URL"}

\* the drafts an answered query returned
AnswerDrafts(t) ==
  IF t.type = "GET_DRAFTS_BY_DOMAIN"
  THEN { t.answer[n].draft : n \in 1..Len(t.answer) }
  ELSE { t.answer[n] : n \in 1..Len(t.answer) }

\* the keys of store m whose url parses and has host h
KeysOfHost(m, h) ==
  { k \in DOMAIN m : IsParsable(m[k].url) /\ URLHostname(m[k].url) = h }

\* C18: a domain query for a parsable page url over a store with entries
\* whose url does not parse still succeeds and returns every well-formed
\* entry of the requested host; the load-time check of a page does not throw.
C18_QuerySkipsMalformed ==
  [][/\ \A j \in 1..Len(tasks) :
          (tasks[j].type \in QueryTypes /\ tasks[j].pc = "sent"
           /\ tasks'[j].pc \notin {"sent", "failed"}
           /\ IsParsable(tasks[j].url))
          => /\ tasks'[j].response = "success"
             /\ AnswerDrafts(tasks'[j])
                  = { store[k] :
                        k \in KeysOfHost(store, URLHostname(tasks[j].url)) }
     /\ \A j \in (Len(tasks) + 1)..Len(tasks') :
          tasks'[j].type = "CHECK_FOR_DRAFTS" => tasks'[j].pc # "threw"]_vars

\* the entries of store m that belong to host h
HostPart(m, h) == [k \in KeysOfHost(m, h) |-> m[k]]

\* C19: the answer to a domain query for host H lists each stored draft
\* whose url has host H once, with its key, and nothing else; it is an answer
\* the handler gives on the store cut down to the drafts of H.
C19_QueryOnlyOwnHost ==
  [][\A j \in 1..Len(tasks) :
       (tasks[j].type = "GET_DRAFTS_BY_DOMAIN" /\ tasks[j].pc = "sent"
        /\ tasks'[j].pc = "done" /\ tasks'[j].response = "success")
       => LET H == URLHostname(tasks[j].url)
              a == tasks'[j].answer
          IN /\ { a[n].key : n \in 1..Len(a) } = KeysOfHost(store, H)
             /\ Len(a) = Cardinality(KeysOfHost(store, H))
             /\ \A n \in 1..Len(a) : a[n].draft = store[a[n].key]
             /\ a \in QueryAnswers(HostPart(store, H), tasks[j].url)]_vars

\* a query answered with some but not all of a store that also holds a draft
\* of another host and an entry that does not parse
C19_Witness ==
  \E j \in 1..Len(tasks) :
    /\ tasks[j].type = "GET_DRAFTS_BY_DOMAIN" /\ tasks[j].response = "success"
    /\ Len(tasks[j].answer) > 0
    /\ OtherKey \in DOMAIN store /\ BrokenKey \in DOMAIN store
    /\ EditKey \in DOMAIN store

----------------------------------------------------------------------------
(* Properties of the classifier *)

\* a password rule flags the element: its type, its autocomplete value, its
\* name or its id
PasswordLike(e) ==
  LET d == ElemDef[e] IN
  \/ d.type = "password" \/ d.typeAttr = "password"
  \/ d.autocomplete \in {"current-password", "new-password"}
  \/ MatchesPassword(d.name) \/ MatchesPassword(d.id)

\* C20: an element that a password rule flags is never scheduled for a save
\* and never written, whatever inclusion rule it matches otherwise.
C20_PasswordNeverSaved ==
  \A e \in Elems :
    PasswordLike(e)
    => /\ \A t \in timers : t.el # e
       /\ \A i \in 1..Len(tasks) : tasks[i].el # e

\* a rule of exclusion flags the element: password, search box or hidden
FlaggedForExclusion(d) ==
  \/ d.type = "password" \/ d.typeAttr = "password"
  \/ d.autocomplete \in {"current-password", "new-password"}
  \/ MatchesPassword(d.name) \/ MatchesPassword(d.id)
  \/ d.typeAttr = "search" \/ d.role = "searchbox"
  \/ MatchesSearchQuery(d.placeholder) \/ MatchesSearch(d.name)
  \/ MatchesSearch(d.ariaLabel)
  \/ d.offsetParentNull \/ d.displayNone

\* the name and the placeholder match no content token
NoContentToken(d) == ~MatchesContent(d.name) /\ ~MatchesContent(d.placeholder)

\* C21 as stated: shouldSaveElement accepts every textarea whose height is
\* greater than 150, whatever its name and placeholder are.
C21_TallTextareaAccepted ==
  (probe.classified /\ probe.el.tagName = "TEXTAREA"
   /\ MeasuredHeight(probe.el) > 150)
  => probe.result

\* C21 amended: shouldSaveElement accepts every textarea that no exclusion
\* rule flags and whose height, as measured when the textarea rule first saw
\* it, is greater than 150, whatever its name and placeholder are.
C21_TallTextareaAcceptedUnlessExcluded ==
  (probe.classified /\ probe.el.tagName = "TEXTAREA"
   /\ ~FlaggedForExclusion(probe.el)
   /\ probe.cachedData /\ probe.height > 150)
  => probe.result

\* a tall textarea without content token in name or placeholder was accepted
C21_Witness ==
  /\ probe.classified /\ probe.result
  /\ probe.el.tagName = "TEXTAREA" /\ ~probe.el.isContentEditable
  /\ NoContentToken(probe.el)
  /\ probe.height > 150

\* C22 as stated: shouldSaveElement rejects every checkbox and radio whose
\* name is empty, whatever its other attributes are.
C22_NamelessChoiceRejected ==
  (probe.classified /\ probe.el.tagName = "INPUT"
   /\ probe.el.type \in {"checkbox", "radio"} /\ probe.el.name = "")
  => ~probe.result

\* C22 amended: shouldSaveElement rejects every checkbox and radio whose name
\* is empty and that is not an editing host of its own (contenteditable
\* "true"), whatever its other attributes are.
C22_NamelessChoiceRejectedUnlessEditable ==
  (probe.classified /\ probe.el.tagName = "INPUT"
   /\ probe.el.type \in {"checkbox", "radio"} /\ probe.el.name = ""
   /\ ~(probe.el.isContentEditable /\ probe.el.contenteditableAttr = "true"))
  => ~probe.result

\* a visible checkbox or radio with an id and a content placeholder, but no
\* name, was rejected
C22_Witness ==
  /\ probe.classified /\ ~probe.result
  /\ probe.el.tagName = "INPUT" /\ probe.el.type \in {"checkbox", "radio"}
  /\ probe.el.name = "" /\ probe.el.id = "editor"
  /\ probe.el.placeholder = "comment"
  /\ ~FlaggedForExclusion(probe.el)

----------------------------------------------------------------------------
(* Properties of the restore *)

\* a restore function has run: it looked for a target and came back
Restored == restore.pc \in {"awaiting", "done"}

\* C23: the restore target is the first visible textarea taller than 150,
\* otherwise the first visible rich-text region, otherwise the first visible
\* textarea, otherwise none, whatever the kind of the draft
C23_TargetIgnoresDraftKind ==
  Restored => restore.target = findBestInputElement(connected)

\* the draft and the target are of different kinds
KindMismatch ==
  restore.draft.isRichText # ElemDef[restore.target].isContentEditable

\* C24: a restore whose draft does not match the kind of its target assigns
\* the tag-stripped plain text, and only a rich-text draft that goes into an
\* editable region is assigned as markup
C24_MismatchAssignsPlainText ==
  Restored /\ restore.target # "" =>
    /\ KindMismatch =>
         /\ restore.property # "innerHTML"
         /\ restore.assigned = getPlainText(restore.draft.content)
    /\ restore.property = "innerHTML" =>
         /\ restore.draft.isRichText
         /\ ElemDef[restore.target].isContentEditable

\* C25: on a page without visible textarea and without visible editable
\* region a finished restore has changed no element, has dispatched no
\* event and has shown the 'no target' message and nothing else
C25_NoTargetReported ==
  restore.pc = "done" /\ restore.target = "" =>
    /\ visibleTextareas(connected) = <<>>
    /\ visibleEditables(connected) = <<>>
    /\ value = [e \in Elems |-> <<>>]
    /\ restore.events = <<>>
    /\ restore.shown = <<"no target">>

\* C26: a rich-text draft, whose content is the innerHTML extracted from the
\* editor, restored into a rich-text region leaves that region with exactly
\* the extracted markup
C26_RichTextRoundTrip ==
  /\ \A k \in DOMAIN store :
       store[k].isRichText => store[k].content \in TypedMarkups
  /\ ( /\ Restored
       /\ restore.target # ""
       /\ restore.draft.isRichText
       /\ ElemDef[restore.target].isContentEditable )
     => value[restore.target] = restore.draft.content

C26_Witness ==
  /\ restore.pc = "done"
  /\ restore.draft.isRichText
  /\ restore.target = "ed"
  /\ restore.draft.content = <<"a", "&lt;", "b">>
  /\ value["ed"] = <<"a", "&lt;", "b">>

----------------------------------------------------------------------------
(* Properties of the deletions in the side panel *)

\* the step is one of the run j of handleDelete or handleClearAll
PanelStep(j) ==
  /\ j \in 1..Len(tasks')
  /\ tasks'[j].type \in PanelTypes
  /\ (j \in 1..Len(tasks) => tasks'[j] # tasks[j])

\* C27: a confirmed single delete writes back the map it read without the
\* chosen key and with every other entry as read, a confirmed bulk clear
\* writes the empty map, and no other step of the two handlers (the
\* cancelled dialog and the clear with no drafts loaded among them) writes
C27_DeletesOnlyConfirmed ==
  [][\A j \in 1..MaxTasks + 1 :
       PanelStep(j) =>
         IF tasks'[j].pc = "written"
         THEN store' = (IF tasks'[j].type = "DELETE" THEN tasks[j].local
                        ELSE EmptyMap)
         ELSE /\ store' = store
              /\ tasks'[j].pc = "read" /\ tasks'[j].type = "DELETE" =>
                   /\ DOMAIN tasks'[j].local =
                        DOMAIN store \ {tasks'[j].draftKey}
                   /\ \A k \in DOMAIN tasks'[j].local :
                        tasks'[j].local[k] = store[k]]_vars

C27_Witness ==
  \E j \in 1..Len(tasks) :
    /\ tasks[j].type = "DELETE" /\ tasks[j].pc = "done"
    /\ tasks[j].draftKey \notin DOMAIN store
    /\ store # EmptyMap

----------------------------------------------------------------------------
(* Properties of the writes of the expiry sweep *)

SweepTypes == {"SWEEP", "LEGACY_SWEEP"}

\* the step is the one where the run j of cleanExpiredDrafts gets the map
GetStep(j) ==
  /\ j \in 1..Len(tasks)
  /\ tasks[j].type \in SweepTypes
  /\ tasks[j].pc = "sent" /\ tasks'[j].pc \in {"read", "done"}

\* the step is the one where the storage.set of the run j takes effect
SetStep(j) ==
  /\ j \in 1..Len(tasks)
  /\ tasks[j].type \in SweepTypes
  /\ tasks[j].pc = "read" /\ tasks'[j].pc = "done"

\* C28: cleanExpiredDrafts calls storage.set only if it deleted at least one
\* entry from the map it read; a sweep that finds nothing expired ends
\* without a write
C28_WritesOnlyAfterDeleting ==
  [][\A j \in 1..MaxTasks + 1 :
       /\ GetStep(j) =>
            /\ store' = store
            /\ tasks'[j].pc = "read" => DOMAIN tasks'[j].local # DOMAIN store
       /\ (j \in 1..Len(tasks) /\ tasks[j].type \in SweepTypes
           /\ store' # store) => SetStep(j) \/ tasks'[j] = tasks[j]]_vars

\* the runs of the sweep that called storage.set
Writers ==
  { j \in 1..Len(tasks) : tasks[j].type = "SWEEP" /\ tasks[j].hasChanges }

\* C29: of the runs of cleanExpiredDrafts at one clock value with no other
\* change of the store, at most one writes, also when the runs overlap
C29_SecondRunNoWrite == Cardinality(Writers) <= 1

\* C29, amended: every write of a run leaves the store as one run on the
\* present store leaves it, and a run that gets the map after another run
\* has ended performs no write; overlapping runs may each write
C29_RerunLeavesStore ==
  [][\A j \in 1..MaxTasks + 1 :
       /\ SetStep(j) => store' = Without(store, ExpiredKeys(store, now))
       /\ ( /\ GetStep(j)
            /\ \E i \in 1..Len(tasks) : /\ i # j
                                        /\ tasks[i].type = "SWEEP"
                                        /\ tasks[i].pc = "done" )
          => tasks'[j].pc = "done" /\ ~tasks'[j].hasChanges]_vars

C29_Witness ==
  \E i, j \in 1..Len(tasks) :
    /\ tasks[i].type = "SWEEP" /\ tasks[i].pc = "done" /\ tasks[i].hasChanges
    /\ tasks[j].type = "SWEEP" /\ tasks[j].pc = "done" /\ ~tasks[j].hasChanges
    /\ i < j
    /\ store # EmptyMap

\* C30: the map a run of cleanExpiredDrafts writes holds only keys the run
\* read, each with exactly the draft it read, and the write stores that map
C30_SweepOnlyDeletes ==
  [][\A j \in 1..MaxTasks + 1 :
       /\ (GetStep(j) /\ tasks'[j].pc = "read") =>
            /\ DOMAIN tasks'[j].local \subseteq DOMAIN store
            /\ \A k \in DOMAIN tasks'[j].local :
                 tasks'[j].local[k] = store[k]
       /\ SetStep(j) => store' = tasks[j].local]_vars

C30_Witness ==
  \E j \in 1..Len(tasks) :
    /\ tasks[j].type = "SWEEP" /\ tasks[j].pc = "done" /\ tasks[j].hasChanges
    /\ OldKey \notin DOMAIN store
    /\ store # EmptyMap

----------------------------------------------------------------------------
(* Properties of the key format *)

\* C31: the key of every save is the hostname joined to the element's id
\* when it has one, otherwise to its name when it has one, otherwise to its
\* position among the page's elements of the same tag
C31_KeyFormat ==
  \A j \in 1..Len(tasks) :
    HasKey(tasks[j]) /\ tasks[j].el \in connected =>
      LET d == ElemDef[tasks[j].el] IN
      /\ tasks[j].draftKey[1] = hostname
      /\ tasks[j].draftKey[2] =
           (IF d.id # "" THEN d.id
            ELSE IF d.name # "" THEN d.name
            ELSE PosIdentifier(TagLower(d),
                               IndexAmongTag(tasks[j].el, connected)))

----------------------------------------------------------------------------
(* Properties of what follows the assignment of a restore *)

\* C32: every restore that assigned a draft to an element has then
\* dispatched an input event and a change event on it and focused it, in
\* this order
C32_EventsAfterAssignment ==
  (Restored /\ restore.target # "") =>
    /\ restore.property # ""
    /\ restore.events = <<"input", "change", "focus">>

\* C33: when no highlight timer is pending, every element has the box-shadow
\* and the transition the page gave it, however many restores there were
C33_HighlightLeavesNoStyle ==
  highlights = <<>> => style = [e \in Elems |-> PageStyle(e)]

\* C34: no restore assigns the draft of a checkbox, a radio button or a
\* select element to a textarea or an editable region
C34_ChoiceDraftNotWrittenAsText ==
  (Restored /\ restore.target # "") =>
    restore.draft.elementType \notin ChoiceKinds

----------------------------------------------------------------------------
(* Properties of the height cache *)

\* C35: once the textarea rule has measured an element, every later
\* classification uses that height, whatever height the element has by then:
\* the cached height never changes and decides the verdict of the rule
C35_HeightMeasuredOnce ==
  [][probe.cachedData =>
       /\ probe'.cachedData
       /\ probe'.height = probe.height
       /\ (probe'.classified /\ ~probe.classified /\ probe.height > 150)
            => probe'.result]_vars

C35_Witness ==
  /\ probe.classified /\ probe.cachedData
  /\ probe.height > 150 /\ MeasuredHeight(probe.el) <= 150
  /\ NoContentToken(probe.el)
  /\ probe.result

----------------------------------------------------------------------------
(* Properties of the change listeners *)

\* C36: a change of a checkbox, a radio button or a select that is saved at
\* all sends exactly one SAVE_DRAFT, also when the element was inserted
\* into the page after the script started
C36_OneSavePerChange ==
  [][\A e \in Elems :
       (ChoiceChanged(e)
          /\ ~(ElemDef[e].tagName = "SELECT" /\ selectedOptions'[e] = {}))
       => Len(Appended) = 1]_vars

----------------------------------------------------------------------------
(* Properties of the store under interleaved handlers *)

\* C37: a key that is absent from the store, as it is after the side panel
\* deleted it, comes back only by the write of a SAVE_DRAFT for that key: no
\* other handler that read the store earlier writes it back
C37_DeletedStaysDeleted ==
  [][\A k \in StoreKeys :
       (k \notin DOMAIN store /\ k \in DOMAIN store')
       => \E i \in 1..Len(tasks) :
            /\ tasks[i].type = "SAVE_DRAFT" /\ tasks[i].draftKey = k
            /\ tasks[i].pc = "read" /\ tasks'[i].pc = "written"]_vars

\* the handlers other than task i have not read the store yet, or never
\* write it
Alone(i) ==
  \A j \in 1..Len(tasks) :
    j # i => tasks[j].pc = "sent" \/ tasks[j].type = "GET_DRAFTS_BY_DOMAIN"

\* the step is the storage.set of task i taking effect
Wrote(i) == tasks[i].pc = "read" /\ tasks'[i].pc = "written"

\* C38: the write of a SAVE_DRAFT that no other handler interleaved with
\* leaves under its key exactly the draft of the request, every field of an
\* older entry replaced, and leaves every other key as it was
C38_SaveReplacesEntry ==
  [][\A i \in 1..Len(tasks) :
       (tasks[i].type = "SAVE_DRAFT" /\ Wrote(i) /\ Alone(i))
       => /\ DOMAIN store' = DOMAIN store \cup {tasks[i].draftKey}
          /\ store'[tasks[i].draftKey] = tasks[i].draft
          /\ \A k \in DOMAIN store :
               k # tasks[i].draftKey => store'[k] = store[k]]_vars

\* a save has replaced the older entry of its key, next to another entry
C38_Witness ==
  \E i \in 1..Len(tasks) :
    /\ tasks[i].type = "SAVE_DRAFT" /\ tasks[i].pc = "written" /\ Alone(i)
    /\ tasks[i].draftKey = EditKey
    /\ store = Put(Put(EmptyMap, EditKey, tasks[i].draft), BrokenKey, BrokenDraft)
    /\ tasks[i].draft.timestamp # EditDraft.timestamp
    /\ tasks[i].draft.lastAccessed # EditDraft.lastAccessed

\* C39: an UPDATE_DRAFT_ACCESS whose key is not in the map it read answers
\* without success and prepares no write; one whose key is there prepares
\* the map it read with only that entry's lastAccessed changed, and that
\* map is what its storage.set writes
C39_AccessOnlyStamps ==
  [][\A i \in 1..Len(tasks) :
       tasks[i].type = "UPDATE_DRAFT_ACCESS" =>
         LET k == tasks[i].draftKey IN
         /\ (tasks[i].pc = "sent" /\ tasks'[i].pc # "sent" /\ k \notin DOMAIN store)
              => /\ tasks'[i].pc \in {"done", "failed"}
                 /\ tasks'[i].response # "success"
                 /\ tasks'[i].local = EmptyMap
                 /\ store' = store
         /\ tasks'[i].pc = "read" => tasks[i].pc \in {"sent", "read"}
         /\ (tasks[i].pc = "sent" /\ tasks'[i].pc = "read")
              => /\ k \in DOMAIN store
                 /\ tasks'[i].local = [store EXCEPT ![k].lastAccessed = now]
         /\ tasks'[i].pc = "written" => tasks[i].pc \in {"read", "written"}
         /\ Wrote(i) => store' = tasks[i].local]_vars

\* the draft was swept before the handler read the store: the request was
\* answered without success and the store has no entry for its key
C39_Witness ==
  \E i \in 1..Len(tasks) :
    /\ tasks[i].type = "UPDATE_DRAFT_ACCESS" /\ tasks[i].pc = "done"
    /\ tasks[i].response = "no such draft"
    /\ tasks[i].draftKey \notin DOMAIN store

----------------------------------------------------------------------------
(* Properties of saveDraft for removed elements *)

\* C40: a debounce timer that fires for an element removed from the
\* document sends nothing and leaves the store alone, and no step, the flush
\* before unload included, sends a SAVE_DRAFT for an element that is not in
\* the document
C40_RemovedElementNotSaved ==
  [][/\ \A t \in timers :
          (timers' = timers \ {t} /\ t.el \notin connected)
          => tasks' = tasks /\ store' = store
     /\ \A j \in 1..Len(Appended) : Appended[j].el \in connected]_vars

\* the timer of a removed element with enough text has fired, and no message
\* was sent
C40_Witness ==
  /\ timeoutId # NoTimer /\ timeoutId \notin timers
  /\ phase # "unloading" /\ now >= timeoutId.deadline
  /\ timeoutId.el \in detached
  /\ PassesContentCheck(timeoutId.el, value, checked, selectedOptions)
  /\ tasks = <<>>

====
